---- MODULE Spec2Model ----
(***************************************************************************)
(* Model of the ledger and tax-computation engine of the accountant        *)
(* repository: core/ledger.py, core/transaction.py, core/invoice.py,       *)
(* core/account.py, data/database.py and hmrc/corporate_tax.py.            *)
(*                                                                         *)
(* Conventions                                                             *)
(*  - A Python dict is a TLA+ function whose domain is the set of keys     *)
(*    that are present; Has/Get/Put are `in`, dict.get and item            *)
(*    assignment.                                                          *)
(*  - Money is an integer number of mils (0.001 GBP), so that the          *)
(*    quantize(Decimal('0.01'), ROUND_HALF_UP) conversions of the source   *)
(*    are modelled by what they do.  Arithmetic on amounts is exact, as    *)
(*    for Decimal or int amounts; binary float rounding is not modelled.   *)
(*  - A date "YYYY-MM-DD" is its day number: comparing well-formed ISO     *)
(*    dates as strings or as datetimes is comparing day numbers.           *)
(*  - An id assigned by Database.add_transaction is a positive integer     *)
(*    below UuidBase; the k-th uuid4 string is the integer UuidBase + k    *)
(*    (not an int for the source's isinstance check).                         *)
(*  - A document number is a sequence of strings: <<"I1">> is the invoice  *)
(*    number "I1", <<"PMT", "I1">> is "PMT-I1".                            *)
(***************************************************************************)
EXTENDS Integers, Sequences, FiniteSets, TLC

VARIABLES
    chart_of_accounts,  \* Database.data["chart_of_accounts"]: code -> [type, balance]
    transactions,       \* Database.data["transactions"]: sequence of dicts
    invoices,           \* Database.data["invoices"]: sequence of dicts
    uuid_counter,       \* number of uuid4 values that reached the store
    expenses,           \* Database.data["expenses"]: sequence of dicts
    vat_returns,        \* Database.data["vat_returns"]: sequence of dicts
    reports,            \* the VAT report dicts alive in memory, by reference
    draft,              \* the Invoice object a caller is editing, <<>> if none
    databases,          \* Database instances of other processes on one file
    last                \* the last call: its name, arguments and outcome

vars == <<chart_of_accounts, transactions, invoices, uuid_counter, expenses,
          vat_returns, reports, draft, databases, last>>

\* What the ledger, transaction and invoice operations never touch.
tax_store == <<expenses, vat_returns, reports, draft>>

-----------------------------------------------------------------------------
(* Bounds of the model *)

MaxTx == 2
MaxInvoices == 2
MaxItems == 2
MaxUuid == 9
MaxLegs == 7
MaxExpenses == 1
MaxReports == 2
MaxVatReturns == 2
MaxJournalLegs == 3
MaxBalance == 250000

-----------------------------------------------------------------------------
(* Python dict and list helpers *)

Has(d, k) == k \in DOMAIN d

Get(d, k, default) == IF k \in DOMAIN d THEN d[k] ELSE default

Put(d, k, v) == [x \in (DOMAIN d) \cup {k} |-> IF x = k THEN v ELSE d[x]]

RemoveAt(s, i) == [j \in 1..(Len(s) - 1) |-> IF j < i THEN s[j] ELSE s[j + 1]]

RECURSIVE SumSeq(_)
SumSeq(s) == IF s = <<>> THEN 0 ELSE Head(s) + SumSeq(Tail(s))

Max(a, b) == IF a >= b THEN a ELSE b

Abs(x) == IF x < 0 THEN -x ELSE x

\* The least index of the set found (the first match of a loop), 0 when empty.
FirstIndex(found) ==
    IF found = {} THEN 0 ELSE CHOOSE i \in found : \A j \in found : i <= j

UuidBase == 1000

Today == 20

Pounds(n) == n * 1000

-----------------------------------------------------------------------------
(* core/ledger.py: the default chart of accounts *)

AssetCodes == {"1000", "1100", "1200", "1300", "1400", "1500", "1600"}
LiabilityCodes == {"2000", "2100", "2200", "2300", "2400"}
EquityCodes == {"3000", "3100", "3200"}
IncomeCodes == {"4000", "4100", "4200", "4300"}
ExpenseCodes ==
    {"5000", "5100", "5200", "5300", "5400", "5500", "5600", "5700", "5800", "5900"}

DefaultAccountTypes ==
    [c \in AssetCodes |-> "asset"] @@ [c \in LiabilityCodes |-> "liability"] @@
    [c \in EquityCodes |-> "equity"] @@ [c \in IncomeCodes |-> "income"] @@
    [c \in ExpenseCodes |-> "expense"]

\* The first character of an account code of the model ("" for the empty code).
FirstChar(code) ==
    CASE code \in AssetCodes -> "1"
      [] code \in LiabilityCodes -> "2"
      [] code \in EquityCodes -> "3"
      [] code \in IncomeCodes -> "4"
      [] code \in ExpenseCodes -> "5"
      [] code = "9999" -> "9"
      [] OTHER -> ""

DefaultChart ==
    [c \in DOMAIN DefaultAccountTypes |-> [type |-> DefaultAccountTypes[c], balance |-> 0]]

Balances(chart) == [c \in DOMAIN chart |-> chart[c].balance]

-----------------------------------------------------------------------------
(* core/account.py: Account.debit / Account.credit *)

AccountDebit(type, balance, amount) ==
    IF type \in {"asset", "expense"} THEN balance + amount ELSE balance - amount

AccountCredit(type, balance, amount) ==
    IF type \in {"asset", "expense"} THEN balance - amount ELSE balance + amount

-----------------------------------------------------------------------------
(* data/database.py: the transaction store *)

MaxIntId(txs) ==
    LET ids == {txs[i]["id"] : i \in {j \in 1..Len(txs) :
                    Has(txs[j], "id") /\ txs[j]["id"] < UuidBase}}
    IN  IF ids = {} THEN 0 ELSE CHOOSE m \in ids : \A x \in ids : x <= m

\* The dict as add_transaction leaves it: id and date filled in when absent.
DbStamp(txs, t) ==
    LET t1 == IF Has(t, "id") THEN t ELSE Put(t, "id", MaxIntId(txs) + 1)
    IN  IF Has(t1, "date") THEN t1 ELSE Put(t1, "date", Today)

DbAddTransaction(txs, t) == Append(txs, DbStamp(txs, t))

DbFindTransaction(txs, id) == FirstIndex({i \in 1..Len(txs) : Get(txs[i], "id", 0) = id})

DbUpdateTransaction(txs, id, data) ==
    LET i == DbFindTransaction(txs, id)
    IN  IF i = 0 THEN txs ELSE [txs EXCEPT ![i] = Put(data, "id", id)]

DbDeleteTransaction(txs, id) ==
    LET i == DbFindTransaction(txs, id)
    IN  IF i = 0 THEN txs ELSE RemoveAt(txs, i)

-----------------------------------------------------------------------------
(* core/ledger.py: balance maintenance *)

Delta(t) == Get(t, "debit", 0) - Get(t, "credit", 0)

UpdateAccountBalance(chart, code, amount_change) ==
    IF code \in DOMAIN chart
    THEN [chart EXCEPT ![code].balance = @ + amount_change]
    ELSE chart

RECURSIVE Replay(_, _)
Replay(chart, txs) ==
    IF txs = <<>> THEN chart
    ELSE Replay(IF Has(Head(txs), "account")
                THEN UpdateAccountBalance(chart, Head(txs)["account"], Delta(Head(txs)))
                ELSE chart,
                Tail(txs))

\* Ledger.refresh: zero every balance, then replay the log in storage order.
Refresh(chart, txs) ==
    Replay([c \in DOMAIN chart |-> [chart[c] EXCEPT !.balance = 0]], txs)

-----------------------------------------------------------------------------
(* core/ledger.py: add_transaction, update_transaction, delete_transaction *)

\* Ledger.get_account_by_code(transaction_data["account"]) finds an account.
LedgerAccepts(chart, t) == Has(t, "account") /\ t["account"] \in DOMAIN chart

\* The balances after Ledger.add_transaction has stored t.
LedgerAddBalance(chart, t) == UpdateAccountBalance(chart, t["account"], Delta(t))

\* Ledger.update_transaction, after the store has replaced the record: the old
\* effect is reversed, then the new data's effect is applied.
LedgerUpdateBalance(chart, old, data) ==
    LET reversed == IF Has(old, "account")
                    THEN UpdateAccountBalance(chart, old["account"], -Delta(old))
                    ELSE chart
    IN  IF Has(data, "account")
        THEN UpdateAccountBalance(reversed, data["account"], Delta(data))
        ELSE reversed

LedgerDeleteBalance(chart, old) ==
    IF Has(old, "account")
    THEN UpdateAccountBalance(chart, old["account"], -Delta(old))
    ELSE chart

\* Inputs of the ledger's transaction operations: a debit and a credit to an
\* asset account, a credit to a liability account, both sides positive, both
\* sides zero, an unknown account, no account key, and non-amount fields only.
LedgerTxInputs ==
    {[account |-> "1200", debit |-> Pounds(100), credit |-> 0],
     [account |-> "1200", debit |-> 0, credit |-> Pounds(40)],
     [account |-> "2100", debit |-> 0, credit |-> Pounds(40)],
     [account |-> "2100", debit |-> Pounds(30), credit |-> Pounds(10)],
     [account |-> "1200", debit |-> 0, credit |-> 0],
     [account |-> "9999", debit |-> Pounds(100), credit |-> 0],
     [debit |-> Pounds(100), credit |-> 0],
     [status |-> "reconciled"]}

TxIds == 1..(MaxTx + 1)

LedgerAddTransaction(t) ==
    /\ Len(transactions) < MaxTx
    /\ IF LedgerAccepts(chart_of_accounts, t)
       THEN /\ transactions' = DbAddTransaction(transactions, t)
            /\ chart_of_accounts' = LedgerAddBalance(chart_of_accounts, t)
            /\ last' = [op |-> "Ledger.add_transaction", arg |-> t, ok |-> TRUE]
       ELSE /\ UNCHANGED <<transactions, chart_of_accounts>>
            /\ last' = [op |-> "Ledger.add_transaction", arg |-> t, ok |-> FALSE]
    /\ UNCHANGED <<databases, invoices, uuid_counter, tax_store>>

LedgerUpdateTransaction(id, data) ==
    LET i == DbFindTransaction(transactions, id)
    IN  /\ IF i # 0
           THEN /\ transactions' = DbUpdateTransaction(transactions, id, data)
                /\ chart_of_accounts' =
                       LedgerUpdateBalance(chart_of_accounts, transactions[i], data)
                /\ last' = [op |-> "Ledger.update_transaction", id |-> id,
                            arg |-> data, ok |-> TRUE]
           ELSE /\ UNCHANGED <<transactions, chart_of_accounts>>
                /\ last' = [op |-> "Ledger.update_transaction", id |-> id,
                            arg |-> data, ok |-> FALSE]
        /\ UNCHANGED <<databases, invoices, uuid_counter, tax_store>>

LedgerDeleteTransaction(id) ==
    LET i == DbFindTransaction(transactions, id)
    IN  /\ IF i # 0
           THEN /\ transactions' = DbDeleteTransaction(transactions, id)
                /\ chart_of_accounts' = LedgerDeleteBalance(chart_of_accounts, transactions[i])
                /\ last' = [op |-> "Ledger.delete_transaction", id |-> id, ok |-> TRUE]
           ELSE /\ UNCHANGED <<transactions, chart_of_accounts>>
                /\ last' = [op |-> "Ledger.delete_transaction", id |-> id, ok |-> FALSE]
        /\ UNCHANGED <<databases, invoices, uuid_counter, tax_store>>

-----------------------------------------------------------------------------
(* core/ledger.py: add_invoice and _create_invoice_transaction *)

\* Python's round(x, 2) of the amount num/den mils (den > 0): the nearest whole
\* penny, an exact half going to the even penny.
PyRound2(num, den) ==
    LET q == num \div (10 * den)
        r == num - q * 10 * den
    IN  IF 2 * r < 10 * den THEN q * 10
        ELSE IF 2 * r > 10 * den THEN (q + 1) * 10
        ELSE IF q % 2 = 0 THEN q * 10 ELSE (q + 1) * 10

MaxInvoiceIntId(invs) ==
    LET ids == {invs[i]["id"] : i \in {j \in 1..Len(invs) :
                    Has(invs[j], "id") /\ invs[j]["id"] < UuidBase}}
    IN  IF ids = {} THEN 0 ELSE CHOOSE m \in ids : \A x \in ids : x <= m

DbAddInvoice(invs, inv) ==
    LET i1 == IF Has(inv, "id") THEN inv ELSE Put(inv, "id", MaxInvoiceIntId(invs) + 1)
    IN  Append(invs, IF Has(i1, "date") THEN i1 ELSE Put(i1, "date", Today))

\* The checks of Ledger.add_invoice that raise ValueError.
LedgerInvoiceAccepts(data) ==
    /\ {"type", "entity_name", "amount"} \subseteq DOMAIN data
    /\ data["type"] \in {"sales", "purchase"}

\* The defaults Ledger.add_invoice fills in before it stores the invoice; gen is
\* the uuid-derived part of a generated invoice number.
LedgerInvoiceDefaults(data, gen) ==
    LET d1 == IF Has(data, "invoice_number") THEN data
              ELSE Put(data, "invoice_number",
                       <<IF data["type"] = "sales" THEN "INV" ELSE "PUR", "GEN", gen>>)
        d2 == IF Has(d1, "date") THEN d1 ELSE Put(d1, "date", Today)
        d3 == IF Has(d2, "due_date") THEN d2 ELSE Put(d2, "due_date", d2["date"] + 30)
        d4 == IF Has(d3, "payment_status") THEN d3 ELSE Put(d3, "payment_status", "unpaid")
    IN  IF Has(d4, "vat") THEN d4
        ELSE Put(d4, "vat", PyRound2(d4["amount"] * Get(d4, "vat_rate", 20), 100))

\* One `transaction[...] = ...; self.add_transaction(transaction)` step on the
\* handler's single dict.  st.dict is that dict, st.aliases the positions of the
\* store that hold a reference to it: assigning to the dict changes what the
\* store holds there, and Database.add_transaction appends the same object again.
LedgerPostLeg(st, account, debit, credit, vat) ==
    LET d == Put(Put(Put(Put(st.dict, "account", account), "debit", debit),
                     "credit", credit), "vat", vat)
        seen == [i \in DOMAIN st.txs |-> IF i \in st.aliases THEN d ELSE st.txs[i]]
        stamped == DbStamp(seen, d)
    IN  IF st.raised \/ ~LedgerAccepts(st.chart, d)
        THEN [st EXCEPT !.raised = TRUE, !.txs = IF st.raised THEN st.txs ELSE seen]
        ELSE [chart |-> LedgerAddBalance(st.chart, stamped),
              txs |-> Append([i \in DOMAIN seen |->
                                 IF i \in st.aliases THEN stamped ELSE seen[i]], stamped),
              dict |-> stamped,
              aliases |-> st.aliases \cup {Len(seen) + 1},
              raised |-> FALSE]

CreateInvoiceTransaction(chart, txs, inv) ==
    LET amount == inv["amount"]
        vat == Get(inv, "vat", 0)
        total == amount + vat
        st0 == [chart |-> chart, txs |-> txs, aliases |-> {}, raised |-> FALSE,
                dict |-> [date |-> inv["date"],
                          document_number |-> inv["invoice_number"],
                          transaction_type |-> "invoice",
                          status |-> "unreconciled"]]
    IN  IF inv["type"] = "sales"
        THEN LET s1 == LedgerPostLeg(st0, "1200", total, 0, 0)
                 s2 == LedgerPostLeg(s1, "4000", 0, amount, 0)
             IN  IF vat > 0 THEN LedgerPostLeg(s2, "2100", 0, vat, vat) ELSE s2
        ELSE LET p1 == LedgerPostLeg(st0, "5000", amount, 0, 0)
                 p2 == IF vat > 0 THEN LedgerPostLeg(p1, "2200", vat, 0, vat) ELSE p1
             IN  LedgerPostLeg(p2, "2000", 0, total, 0)

LedgerAddInvoice(data) ==
    /\ Len(invoices) < MaxInvoices
    /\ UNCHANGED <<tax_store, databases>>
    /\ IF LedgerInvoiceAccepts(data)
       THEN LET inv == LedgerInvoiceDefaults(data, uuid_counter + 1)
                posted == CreateInvoiceTransaction(chart_of_accounts, transactions, inv)
            IN  /\ invoices' = DbAddInvoice(invoices, inv)
                /\ uuid_counter' = IF Has(data, "invoice_number") THEN uuid_counter
                                   ELSE uuid_counter + 1
                /\ IF Get(inv, "auto_post", TRUE)
                   THEN /\ transactions' = posted.txs
                        /\ chart_of_accounts' = posted.chart
                   ELSE UNCHANGED <<transactions, chart_of_accounts>>
                /\ last' = [op |-> "Ledger.add_invoice", arg |-> data, inv |-> inv,
                            ok |-> TRUE]
       ELSE /\ UNCHANGED <<invoices, uuid_counter, transactions, chart_of_accounts>>
            /\ last' = [op |-> "Ledger.add_invoice", arg |-> data, ok |-> FALSE]

-----------------------------------------------------------------------------
(* core/ledger.py: calculate_vat_return *)

\* Ledger.get_transactions_by_date_range: a record without a parseable date
\* (day 0) is skipped.
TransactionsByDateRange(txs, start, end) ==
    SelectSeq(txs, LAMBDA t : Get(t, "date", 0) # 0 /\ start <= t["date"] /\ t["date"] <= end)

CalculateVatReturn(txs, start, end) ==
    LET sel == TransactionsByDateRange(txs, start, end)
        credit(t) == Get(t, "credit", 0)
        debit(t) == Get(t, "debit", 0)
        account(t) == Get(t, "account", "")
        box1 == SumSeq([n \in 1..Len(sel) |->
                    IF account(sel[n]) = "2100" /\ credit(sel[n]) > 0
                    THEN credit(sel[n]) ELSE 0])
        box2 == 0
        box4 == SumSeq([n \in 1..Len(sel) |->
                    IF account(sel[n]) = "2200" /\ debit(sel[n]) > 0
                    THEN debit(sel[n]) ELSE 0])
        box6 == SumSeq([n \in 1..Len(sel) |->
                    IF FirstChar(account(sel[n])) = "4" /\ credit(sel[n]) > 0
                    THEN credit(sel[n]) ELSE 0])
        box7 == SumSeq([n \in 1..Len(sel) |->
                    IF FirstChar(account(sel[n])) = "5" /\ debit(sel[n]) > 0
                    THEN debit(sel[n]) ELSE 0])
    IN  [period_start |-> start,
         period_end |-> end,
         vat_due_sales |-> PyRound2(box1, 1),
         vat_due_acquisitions |-> PyRound2(box2, 1),
         total_vat_due |-> PyRound2(box1 + box2, 1),
         vat_reclaimed |-> PyRound2(box4, 1),
         net_vat_due |-> PyRound2((box1 + box2) - box4, 1),
         total_sales_ex_vat |-> PyRound2(box6, 1),
         total_purchases_ex_vat |-> PyRound2(box7, 1),
         total_supplies_ex_vat |-> 0,
         total_acquisitions_ex_vat |-> 0]

LedgerCalculateVatReturn(start, end) ==
    /\ last' = [op |-> "Ledger.calculate_vat_return", start |-> start, end |-> end,
                ok |-> TRUE, result |-> CalculateVatReturn(transactions, start, end)]
    /\ UNCHANGED <<databases, chart_of_accounts, transactions, invoices, uuid_counter, tax_store>>

\* Inputs of Ledger.add_invoice: the sale of net 100 / VAT 20 and the purchase of
\* net 50 / VAT 10, a sale that leaves VAT, number and date to the defaults, a
\* sale without VAT, a purchase dated before the periods, a sale that is not
\* posted, and two invoices the checks refuse.
LedgerInvoiceInputs ==
    {[type |-> "sales", entity_name |-> "c", amount |-> Pounds(100), vat |-> Pounds(20),
      invoice_number |-> <<"I1">>, date |-> Today],
     [type |-> "purchase", entity_name |-> "s", amount |-> Pounds(50), vat |-> Pounds(10),
      invoice_number |-> <<"P1">>, date |-> Today],
     [type |-> "sales", entity_name |-> "c", amount |-> Pounds(100)],
     [type |-> "sales", entity_name |-> "c", amount |-> Pounds(50), vat |-> 0,
      invoice_number |-> <<"I2">>, date |-> Today],
     [type |-> "purchase", entity_name |-> "s", amount |-> Pounds(50), vat |-> Pounds(10),
      invoice_number |-> <<"P2">>, date |-> 5],
     [type |-> "sales", entity_name |-> "c", amount |-> Pounds(100), vat |-> Pounds(20),
      invoice_number |-> <<"I3">>, date |-> Today, auto_post |-> FALSE],
     [type |-> "sales", entity_name |-> "c"],
     [type |-> "credit_note", entity_name |-> "c", amount |-> Pounds(100)]}

VatPeriods == {<<10, 30>>, <<1, 30>>, <<30, 10>>}

\* Transactions for the VAT boxes: output VAT on the first and on the last day
\* of the period 10..30 and one day after it, a negative credit to 2100 and to
\* 4000 (a credit note), input VAT larger than the output VAT, a sale, a
\* purchase, and a record on an account no box reads.
VatTxInputs ==
    {[account |-> "2100", debit |-> 0, credit |-> Pounds(40), date |-> 10],
     [account |-> "2100", debit |-> 0, credit |-> Pounds(7), date |-> 30],
     [account |-> "2100", debit |-> 0, credit |-> Pounds(9), date |-> 31],
     [account |-> "2100", debit |-> 0, credit |-> -Pounds(15), date |-> 20],
     [account |-> "4000", debit |-> 0, credit |-> -Pounds(100), date |-> 20],
     [account |-> "2200", debit |-> Pounds(60), credit |-> 0, date |-> 20],
     [account |-> "4000", debit |-> 0, credit |-> Pounds(200), date |-> 20],
     [account |-> "5000", debit |-> Pounds(50), credit |-> 0, date |-> 9],
     [account |-> "1200", debit |-> Pounds(240), credit |-> 0, date |-> 20]}

-----------------------------------------------------------------------------
(* core/transaction.py: Transaction *)

\* Decimal(str(x)).quantize(Decimal('0.01'), rounding=ROUND_HALF_UP) of x mils:
\* the nearest whole penny, halves away from zero.
Quantize(m) ==
    IF m >= 0 THEN ((m + 5) \div 10) * 10 ELSE -(((-m + 5) \div 10) * 10)

\* Transaction.from_dict / Transaction.__init__; uuid is the id when data has none.
TransactionFromDict(data, uuid) ==
    [id |-> Get(data, "id", uuid),
     date |-> Get(data, "date", Today),
     account |-> Get(data, "account", ""),
     debit |-> Quantize(Get(data, "debit", 0)),
     credit |-> Quantize(Get(data, "credit", 0)),
     vat |-> Quantize(Get(data, "vat", 0)),
     document_number |-> Get(data, "document_number", <<>>),
     status |-> Get(data, "status", "unreconciled"),
     transaction_type |-> Get(data, "transaction_type", "manual")]

TransactionValidate(tr) ==
    /\ tr.date # 0
    /\ tr.account # ""
    /\ ~(tr.debit = 0 /\ tr.credit = 0)
    /\ ~(tr.debit > 0 /\ tr.credit > 0)

\* for key, value in updated_data.items(): if hasattr: setattr (no conversion).
SetAttrs(tr, updated_data) ==
    [k \in DOMAIN tr |-> IF k \in DOMAIN updated_data THEN updated_data[k] ELSE tr[k]]

-----------------------------------------------------------------------------
(* core/transaction.py: TransactionManager *)

NextUuid == UuidBase + uuid_counter + 1

\* TransactionManager.get_transaction_by_id: the first stored record, read back
\* through Transaction.from_dict, whose id is transaction_id.
TMFind(txs, id) ==
    FirstIndex({i \in 1..Len(txs) : TransactionFromDict(txs[i], 0).id = id})

TMAddTransaction(data) ==
    LET tr == TransactionFromDict(data, NextUuid)
    IN  /\ Len(transactions) < MaxTx
        /\ IF TransactionValidate(tr)
           THEN /\ transactions' = DbAddTransaction(transactions, tr)
                /\ uuid_counter' = IF Has(data, "id") THEN uuid_counter ELSE uuid_counter + 1
                /\ last' = [op |-> "TransactionManager.add_transaction", arg |-> data,
                            tr |-> tr, ok |-> TRUE]
           ELSE /\ UNCHANGED <<transactions, uuid_counter>>
                /\ last' = [op |-> "TransactionManager.add_transaction", arg |-> data,
                            tr |-> tr, ok |-> FALSE]
        /\ UNCHANGED <<databases, chart_of_accounts, invoices, tax_store>>

TMUpdateTransaction(id, updated_data) ==
    LET i == TMFind(transactions, id)
        tr == SetAttrs(TransactionFromDict(transactions[i], 0), updated_data)
    IN  /\ IF i # 0 /\ TransactionValidate(tr)
           THEN /\ transactions' = DbUpdateTransaction(transactions, id, tr)
                /\ last' = [op |-> "TransactionManager.update_transaction", id |-> id,
                            arg |-> updated_data, ok |-> TRUE]
           ELSE /\ UNCHANGED transactions
                /\ last' = [op |-> "TransactionManager.update_transaction", id |-> id,
                            arg |-> updated_data, ok |-> FALSE]
        /\ UNCHANGED <<databases, chart_of_accounts, invoices, uuid_counter, tax_store>>

\* Inputs of the manager: whole pounds on one side, both sides positive, both
\* zero, a negative debit, amounts below a penny and a missing account.
TMAddInputs ==
    {[account |-> "1200", debit |-> Pounds(100), credit |-> 0],
     [account |-> "2100", debit |-> 0, credit |-> Pounds(40)],
     [account |-> "1200", debit |-> Pounds(30), credit |-> Pounds(10)],
     [account |-> "1200", debit |-> 0, credit |-> 0],
     [account |-> "1200", debit |-> -Pounds(5), credit |-> 0],
     [account |-> "1200", debit |-> 4, credit |-> 0],
     [account |-> "1200", debit |-> 5, credit |-> 0],
     [debit |-> Pounds(100), credit |-> 0]}

TMUpdateInputs ==
    {[debit |-> Pounds(7)],
     [credit |-> Pounds(7)],
     [debit |-> 0, credit |-> Pounds(7)],
     [credit |-> -Pounds(3)],
     [debit |-> 0],
     [status |-> "reconciled"]}

UuidIds == {UuidBase + k : k \in 1..(MaxTx + 1)}

-----------------------------------------------------------------------------
(* core/invoice.py: InvoiceItem and Invoice *)

\* (num/den mils).quantize(Decimal('0.01'), rounding=ROUND_HALF_UP), den > 0.
QuantizeRat(num, den) ==
    LET pence == (2 * Abs(num) + 10 * den) \div (20 * den)
    IN  IF num >= 0 THEN pence * 10 ELSE -(pence * 10)

InvoiceItemFromDict(data) ==
    LET quantity == Get(data, "quantity", 10)
        unit_price == Quantize(Get(data, "unit_price", 0))
        vat_rate == Get(data, "vat_rate", 20)
        net_amount == QuantizeRat(quantity * unit_price, 10)
        vat_amount == IF Has(data, "vat_amount") THEN Quantize(data["vat_amount"])
                      ELSE QuantizeRat(net_amount * vat_rate, 100)
    IN  [quantity |-> quantity, unit_price |-> unit_price, vat_rate |-> vat_rate,
         net_amount |-> net_amount, vat_amount |-> vat_amount,
         total |-> IF Has(data, "total") THEN Quantize(data["total"])
                   ELSE Quantize(net_amount + vat_amount)]

InvoiceItemToDict(item) ==
    [quantity |-> item.quantity, unit_price |-> item.unit_price,
     vat_rate |-> item.vat_rate, vat_amount |-> item.vat_amount, total |-> item.total]

\* Invoice._calculate_totals
CalculateTotals(inv) ==
    [inv EXCEPT !.net_amount = SumSeq([n \in 1..Len(inv.items) |-> inv.items[n].net_amount]),
                !.vat_amount = SumSeq([n \in 1..Len(inv.items) |-> inv.items[n].vat_amount]),
                !.total_amount = SumSeq([n \in 1..Len(inv.items) |-> inv.items[n].total])]

\* Invoice.from_dict / Invoice.__init__; u is the number of uuid4 values drawn
\* before.  A payment_date of 0 is None.
InvoiceFromDict(data, u) ==
    LET type == Get(data, "type", "sales")
        date == Get(data, "date", Today)
    IN  CalculateTotals(
            [id |-> Get(data, "id", UuidBase + u + 1),
             invoice_number |-> Get(data, "invoice_number",
                                    <<IF type = "sales" THEN "INV" ELSE "PUR", "GEN", u + 2>>),
             type |-> type,
             date |-> date,
             due_date |-> Get(data, "due_date", date + 30),
             entity_name |-> Get(data, "entity_name", ""),
             payment_status |-> Get(data, "payment_status", "unpaid"),
             payment_date |-> Get(data, "payment_date", 0),
             auto_post |-> Get(data, "auto_post", TRUE),
             items |-> [i \in 1..Len(Get(data, "items", <<>>)) |->
                           InvoiceItemFromDict(data["items"][i])],
             net_amount |-> 0, vat_amount |-> 0, total_amount |-> 0])

InvoiceToDict(inv) ==
    [id |-> inv.id, invoice_number |-> inv.invoice_number, type |-> inv.type,
     date |-> inv.date, due_date |-> inv.due_date, entity_name |-> inv.entity_name,
     amount |-> inv.net_amount, vat |-> inv.vat_amount,
     payment_status |-> inv.payment_status, payment_date |-> inv.payment_date,
     auto_post |-> inv.auto_post,
     items |-> [i \in 1..Len(inv.items) |-> InvoiceItemToDict(inv.items[i])]]

InvoiceValidate(inv) ==
    /\ inv.invoice_number # <<>>
    /\ inv.date # 0
    /\ inv.entity_name # ""
    /\ inv.items # <<>>
    /\ inv.type \in {"sales", "purchase"}

-----------------------------------------------------------------------------
(* core/invoice.py: InvoiceManager.add_invoice and _create_invoice_transactions *)

\* transaction_manager.add_transaction(Transaction(...)) for one leg; st.txs is
\* the store and st.u the number of uuid4 values that reached the store.
IMPostLeg(st, inv, account, debit, credit, vat) ==
    LET tr == TransactionFromDict(
                  [date |-> inv.date, account |-> account, debit |-> debit,
                   credit |-> credit, vat |-> vat,
                   document_number |-> inv.invoice_number,
                   status |-> "unreconciled", transaction_type |-> "invoice"],
                  UuidBase + st.u + 1)
    IN  IF TransactionValidate(tr)
        THEN [txs |-> DbAddTransaction(st.txs, tr), u |-> st.u + 1]
        ELSE st

IMCreateInvoiceTransactions(st, inv) ==
    IF inv.type = "sales"
    THEN LET s1 == IMPostLeg(st, inv, "1200", inv.total_amount, 0, 0)
             s2 == IMPostLeg(s1, inv, "4000", 0, inv.net_amount, 0)
         IN  IF inv.vat_amount > 0
             THEN IMPostLeg(s2, inv, "2100", 0, inv.vat_amount, inv.vat_amount)
             ELSE s2
    ELSE IF inv.type = "purchase"
    THEN LET p1 == IMPostLeg(st, inv, "5000", inv.net_amount, 0, 0)
             p2 == IF inv.vat_amount > 0
                   THEN IMPostLeg(p1, inv, "2200", inv.vat_amount, 0, inv.vat_amount)
                   ELSE p1
         IN  IMPostLeg(p2, inv, "2000", 0, inv.total_amount, 0)
    ELSE st

IMAddInvoice(data) ==
    LET invoice == InvoiceFromDict(data, uuid_counter)
        posted == IMCreateInvoiceTransactions(
                      [txs |-> transactions, u |-> uuid_counter + 2], invoice)
    IN  /\ Len(invoices) < MaxInvoices
        /\ uuid_counter < MaxUuid
        /\ IF InvoiceValidate(invoice)
           THEN /\ invoices' = DbAddInvoice(invoices, InvoiceToDict(invoice))
                /\ IF invoice.auto_post
                   THEN /\ transactions' = posted.txs
                        /\ uuid_counter' = posted.u
                   ELSE /\ UNCHANGED transactions
                        /\ uuid_counter' = uuid_counter + 2
                /\ last' = [op |-> "InvoiceManager.add_invoice", arg |-> data,
                            invoice |-> invoice, ok |-> TRUE]
           ELSE /\ UNCHANGED <<invoices, transactions, uuid_counter>>
                /\ last' = [op |-> "InvoiceManager.add_invoice", arg |-> data,
                            invoice |-> invoice, ok |-> FALSE]
        /\ UNCHANGED <<databases, chart_of_accounts, tax_store>>

\* Item dicts: 1 x 100.00 at 20%; 0.5 x 0.01 at 50% (net and VAT both round up
\* from half a penny); an item with its own vat_amount; an item with its own
\* total; a negative quantity; a zero-rated item.
ItemPlain == [quantity |-> 10, unit_price |-> Pounds(100), vat_rate |-> 20]
ItemHalfPenny == [quantity |-> 5, unit_price |-> 10, vat_rate |-> 50]
ItemOwnVat ==
    [quantity |-> 10, unit_price |-> Pounds(100), vat_rate |-> 20, vat_amount |-> Pounds(15)]
ItemOwnTotal ==
    [quantity |-> 10, unit_price |-> Pounds(100), vat_rate |-> 20, total |-> Pounds(150)]
ItemNegative == [quantity |-> -10, unit_price |-> Pounds(100), vat_rate |-> 20]
ItemZeroRated == [quantity |-> 20, unit_price |-> Pounds(25), vat_rate |-> 0]

ItemLists ==
    {<<ItemPlain>>, <<ItemHalfPenny>>, <<ItemOwnVat>>, <<ItemOwnTotal>>, <<ItemNegative>>,
     <<ItemZeroRated>>, <<ItemPlain, ItemHalfPenny>>, <<>>}

InvoiceInputs ==
    {[type |-> ty, entity_name |-> "c", date |-> Today, items |-> items] :
        ty \in {"sales", "purchase"}, items \in ItemLists}
    \cup {[type |-> "sales", entity_name |-> "c", date |-> Today, auto_post |-> FALSE,
           items |-> <<ItemPlain>>]}

-----------------------------------------------------------------------------
(* core/invoice.py: the Invoice object in a caller's hands *)

\* Invoice(...) built from a dict of fields and item dicts.
InvoiceNew(data) ==
    /\ draft = <<>>
    /\ draft' = InvoiceFromDict(data, uuid_counter)
    /\ last' = [op |-> "Invoice", arg |-> data, ok |-> TRUE]
    /\ UNCHANGED <<databases, chart_of_accounts, transactions, invoices, uuid_counter, expenses,
                   vat_returns, reports>>

\* Invoice.add_item
InvoiceAddItem(item) ==
    /\ draft # <<>>
    /\ Len(draft.items) < MaxItems
    /\ draft' = CalculateTotals(
                    [draft EXCEPT !.items = Append(@, InvoiceItemFromDict(item))])
    /\ last' = [op |-> "Invoice.add_item", arg |-> item, ok |-> TRUE]
    /\ UNCHANGED <<databases, chart_of_accounts, transactions, invoices, uuid_counter, expenses,
                   vat_returns, reports>>

\* Invoice.remove_item; index counts from 0 as in the source.
InvoiceRemoveItem(index) ==
    /\ draft # <<>>
    /\ IF 0 <= index /\ index < Len(draft.items)
       THEN /\ draft' = CalculateTotals([draft EXCEPT !.items = RemoveAt(@, index + 1)])
            /\ last' = [op |-> "Invoice.remove_item", arg |-> index, ok |-> TRUE]
       ELSE /\ UNCHANGED draft
            /\ last' = [op |-> "Invoice.remove_item", arg |-> index, ok |-> FALSE]
    /\ UNCHANGED <<databases, chart_of_accounts, transactions, invoices, uuid_counter, expenses,
                   vat_returns, reports>>

-----------------------------------------------------------------------------
(* core/invoice.py: InvoiceManager.update_invoice, delete_invoice, mark_as_paid *)

\* InvoiceManager.get_invoice_by_id: position of the first stored invoice that
\* reads back with this id, 0 when there is none.
IMFindInvoice(invs, id) == FirstIndex({i \in 1..Len(invs) : Get(invs[i], "id", 0) = id})

\* Database.update_invoice: the record is replaced, its id kept.
DbUpdateInvoice(invs, id, data) ==
    LET i == FirstIndex({j \in 1..Len(invs) : Get(invs[j], "id", 0) = id})
    IN  IF i = 0 THEN invs ELSE [invs EXCEPT ![i] = Put(data, "id", id)]

\* Database.delete_invoice
DbDeleteInvoice(invs, id) ==
    LET i == FirstIndex({j \in 1..Len(invs) : Get(invs[j], "id", 0) = id})
    IN  IF i = 0 THEN invs ELSE RemoveAt(invs, i)

\* The edits of update_invoice on the Invoice object: new items recompute the
\* totals, then every other key that names an attribute is set as given.
IMApplyUpdate(invoice, updated_data) ==
    LET with_items ==
            IF Has(updated_data, "items")
            THEN CalculateTotals(
                     [invoice EXCEPT !.items =
                         [n \in 1..Len(updated_data["items"]) |->
                             InvoiceItemFromDict(updated_data["items"][n])]])
            ELSE invoice
    IN  [k \in DOMAIN with_items |->
            IF k \in DOMAIN updated_data \ {"items"} THEN updated_data[k]
            ELSE with_items[k]]

\* transaction_manager.delete_transaction(t.id) for each id in turn.
RECURSIVE DeleteByIds(_, _)
DeleteByIds(txs, ids) ==
    IF ids = <<>> THEN txs
    ELSE DeleteByIds(DbDeleteTransaction(txs, Head(ids)), Tail(ids))

\* A variant that stops after the first transaction found.
IMDeleteFirstInvoiceTransaction(txs, inv) ==
    LET found == SelectSeq(txs, LAMBDA t :
                     TransactionFromDict(t, 0).document_number = inv.invoice_number)
    IN  IF found = <<>> THEN txs
        ELSE DbDeleteTransaction(txs, TransactionFromDict(found[1], 0).id)

\* InvoiceManager._delete_invoice_transactions
IMDeleteInvoiceTransactions(txs, inv) ==
    LET found == SelectSeq(txs, LAMBDA t :
                     TransactionFromDict(t, 0).document_number = inv.invoice_number)
    IN  DeleteByIds(txs, [n \in 1..Len(found) |-> TransactionFromDict(found[n], 0).id])

\* InvoiceManager._update_invoice_transactions: delete, then post again.
IMUpdateInvoiceTransactions(st, old_invoice, new_invoice) ==
    IMCreateInvoiceTransactions(
        [txs |-> IMDeleteInvoiceTransactions(st.txs, old_invoice), u |-> st.u],
        new_invoice)

IMUpdateInvoice(invoice_id, updated_data, update_transactions) ==
    LET i == IMFindInvoice(invoices, invoice_id)
        stored == InvoiceFromDict(invoices[i], uuid_counter)
        old_invoice == InvoiceFromDict(InvoiceToDict(stored), uuid_counter)
        invoice == IMApplyUpdate(stored, updated_data)
        posted == IMUpdateInvoiceTransactions(
                      [txs |-> transactions, u |-> uuid_counter], old_invoice, invoice)
    IN  /\ uuid_counter < MaxUuid
        /\ IF i # 0 /\ InvoiceValidate(invoice)
           THEN /\ invoices' = DbUpdateInvoice(invoices, invoice_id, InvoiceToDict(invoice))
                /\ IF update_transactions /\ invoice.auto_post
                   THEN /\ transactions' = posted.txs
                        /\ uuid_counter' = posted.u
                   ELSE UNCHANGED <<transactions, uuid_counter>>
                /\ last' = [op |-> "InvoiceManager.update_invoice", id |-> invoice_id,
                            arg |-> updated_data, flag |-> update_transactions,
                            old |-> old_invoice, invoice |-> invoice, ok |-> TRUE]
           ELSE /\ UNCHANGED <<invoices, transactions, uuid_counter>>
                /\ last' = [op |-> "InvoiceManager.update_invoice", id |-> invoice_id,
                            arg |-> updated_data, flag |-> update_transactions,
                            ok |-> FALSE]
        /\ UNCHANGED <<databases, chart_of_accounts, tax_store>>

IMDeleteInvoice(invoice_id, delete_transactions) ==
    LET i == IMFindInvoice(invoices, invoice_id)
        invoice == InvoiceFromDict(invoices[i], uuid_counter)
        remaining == IF delete_transactions
                     THEN IMDeleteInvoiceTransactions(transactions, invoice)
                     ELSE transactions
    IN  /\ IF i # 0
           THEN /\ transactions' = remaining
                /\ invoices' = DbDeleteInvoice(invoices, invoice_id)
                /\ last' = [op |-> "InvoiceManager.delete_invoice", id |-> invoice_id,
                            flag |-> delete_transactions, invoice |-> invoice,
                            removed |-> Len(transactions) - Len(remaining), ok |-> TRUE]
           ELSE /\ UNCHANGED <<invoices, transactions>>
                /\ last' = [op |-> "InvoiceManager.delete_invoice", id |-> invoice_id,
                            flag |-> delete_transactions, ok |-> FALSE]
        /\ UNCHANGED <<databases, chart_of_accounts, uuid_counter, tax_store>>

\* transaction_manager.add_transaction(Transaction(...)) for one payment leg.
IMPostPaymentLeg(st, inv, account, debit, credit, transaction_type) ==
    LET tr == TransactionFromDict(
                  [date |-> inv.payment_date, account |-> account, debit |-> debit,
                   credit |-> credit, vat |-> 0,
                   document_number |-> <<"PMT">> \o inv.invoice_number,
                   status |-> "unreconciled", transaction_type |-> transaction_type],
                  UuidBase + st.u + 1)
    IN  IF TransactionValidate(tr)
        THEN [txs |-> DbAddTransaction(st.txs, tr), u |-> st.u + 1]
        ELSE st

\* InvoiceManager._create_payment_transactions
IMCreatePaymentTransactions(st, inv) ==
    IF inv.type = "sales"
    THEN IMPostPaymentLeg(IMPostPaymentLeg(st, inv, "1100", inv.total_amount, 0, "receipt"),
                          inv, "1200", 0, inv.total_amount, "receipt")
    ELSE IF inv.type = "purchase"
    THEN IMPostPaymentLeg(IMPostPaymentLeg(st, inv, "2000", inv.total_amount, 0, "payment"),
                          inv, "1100", 0, inv.total_amount, "payment")
    ELSE st

\* mark_as_paid(invoice_id, payment_date); a payment_date of 0 is None.
IMMarkAsPaid(invoice_id, payment_date) ==
    LET i == IMFindInvoice(invoices, invoice_id)
        stored == InvoiceFromDict(invoices[i], uuid_counter)
        updated_data == [payment_status |-> "paid",
                         payment_date |-> IF payment_date = 0 THEN Today
                                          ELSE payment_date]
        invoice == IMApplyUpdate(stored, updated_data)
        saved == DbUpdateInvoice(invoices, invoice_id, InvoiceToDict(invoice))
        reread == InvoiceFromDict(saved[i], uuid_counter)
        posted == IMCreatePaymentTransactions(
                      [txs |-> transactions, u |-> uuid_counter], reread)
    IN  /\ uuid_counter < MaxUuid
        /\ IF i # 0 /\ stored.payment_status # "paid" /\ InvoiceValidate(invoice)
           THEN /\ invoices' = saved
                /\ transactions' = posted.txs
                /\ uuid_counter' = posted.u
                /\ last' = [op |-> "InvoiceManager.mark_as_paid", id |-> invoice_id,
                            invoice |-> reread, ok |-> TRUE]
           ELSE /\ UNCHANGED <<invoices, transactions, uuid_counter>>
                /\ last' = [op |-> "InvoiceManager.mark_as_paid", id |-> invoice_id,
                            ok |-> FALSE]
        /\ UNCHANGED <<databases, chart_of_accounts, tax_store>>

-----------------------------------------------------------------------------
(* core/ledger.py: Ledger.mark_invoice_as_paid *)

\* Ledger._create_payment_transaction: one dict, posted twice.
CreatePaymentTransaction(chart, txs, inv) ==
    LET total == inv["amount"] + Get(inv, "vat", 0)
        st0 == [chart |-> chart, txs |-> txs, aliases |-> {}, raised |-> FALSE,
                dict |-> [date |-> Get(inv, "payment_date", Today),
                          document_number |-> <<"PMT">> \o inv["invoice_number"],
                          transaction_type |-> "payment",
                          status |-> "unreconciled"]]
    IN  IF inv["type"] = "sales"
        THEN LedgerPostLeg(LedgerPostLeg(st0, "1100", total, 0, 0), "1200", 0, total, 0)
        ELSE IF inv["type"] = "purchase"
        THEN LedgerPostLeg(LedgerPostLeg(st0, "2000", total, 0, 0), "1100", 0, total, 0)
        ELSE st0

\* mark_invoice_as_paid(invoice_id, payment_date): the stored dict is marked in
\* place, then the payment is posted; there is no check for an earlier payment.
LedgerMarkInvoiceAsPaid(invoice_id, payment_date) ==
    LET i == IMFindInvoice(invoices, invoice_id)
        invoice == Put(Put(invoices[i], "payment_status", "paid"), "payment_date",
                       IF payment_date = 0 THEN Today ELSE payment_date)
        posted == CreatePaymentTransaction(chart_of_accounts, transactions, invoice)
    IN  /\ Len(transactions) + 2 <= MaxLegs
        /\ IF i # 0
           THEN /\ invoices' = [invoices EXCEPT ![i] = invoice]
                /\ transactions' = posted.txs
                /\ chart_of_accounts' = posted.chart
                /\ last' = [op |-> "Ledger.mark_invoice_as_paid", id |-> invoice_id,
                            inv |-> invoice, ok |-> TRUE]
           ELSE /\ UNCHANGED <<invoices, transactions, chart_of_accounts>>
                /\ last' = [op |-> "Ledger.mark_invoice_as_paid", id |-> invoice_id,
                            ok |-> FALSE]
        /\ UNCHANGED <<databases, uuid_counter, tax_store>>

\* Inputs of the invoice life cycle: a sales and a purchase invoice with their
\* own numbers, a second sales invoice under the number of the first, and the
\* edits applied to them.  Id 0 is an id no invoice has.
LifeInvoiceInputs ==
    {[type |-> "sales", entity_name |-> "c", date |-> Today, invoice_number |-> <<"S1">>,
      items |-> <<ItemPlain>>],
     [type |-> "purchase", entity_name |-> "s", date |-> Today, invoice_number |-> <<"P1">>,
      items |-> <<ItemPlain>>],
     [type |-> "sales", entity_name |-> "d", date |-> Today, invoice_number |-> <<"S1">>,
      items |-> <<ItemZeroRated>>]}

LifeUpdateInputs ==
    {[entity_name |-> "e"],
     [items |-> <<ItemZeroRated>>],
     [total_amount |-> Pounds(500)],
     [invoice_number |-> <<"S2">>]}

EditInvoiceInputs ==
    {[type |-> "sales", entity_name |-> "c", date |-> Today, invoice_number |-> <<"S1">>,
      items |-> <<ItemPlain>>]}

EditUpdateInputs == {[items |-> <<ItemZeroRated>>], [total_amount |-> Pounds(500)]}

LifeInvoiceIds == {0} \cup {Get(invoices[i], "id", 0) : i \in 1..Len(invoices)}

DraftInputs ==
    {[id |-> 1, invoice_number |-> <<"D1">>, type |-> "sales", entity_name |-> "c",
      date |-> Today, items |-> items] : items \in {<<>>, <<ItemPlain, ItemHalfPenny>>}}

-----------------------------------------------------------------------------
(* hmrc/corporate_tax.py: CorporateTaxCalculator *)

\* Day 1 is 2023-04-01, so Today is 2023-04-20.  The journal-style
\* transactions the calculator reads carry "entries" whose amounts are whole
\* pounds; the report's money is in pence and its effective_rate in hundredths
\* of a percent (both are round(x, 2) in the code).  Rates are in percent.

\* Exact wide arithmetic: [q, r] with a * b = q * d + r and 0 <= r < d, for
\* a, b >= 0 and d > 0, computed without forming the product a * b.
RECURSIVE MulDivMod(_, _, _)
MulDivMod(a, b, d) ==
    IF b = 0 THEN [q |-> 0, r |-> 0]
    ELSE LET h == MulDivMod(a, b \div 2, d)
             add == IF b % 2 = 1 THEN a ELSE 0
             s == 2 * h.r + (add % d)
         IN  [q |-> 2 * h.q + (add \div d) + (s \div d), r |-> s % d]

\* round(x, 2) of the exact value w + f / den (0 <= f < den), ties to even.
RoundHalfEven(x) ==
    IF 2 * x.f < x.den THEN x.w
    ELSE IF 2 * x.f > x.den THEN x.w + 1
    ELSE IF x.w % 2 = 0 THEN x.w ELSE x.w + 1

\* self.tax_rates, keyed by the year the tax year starts in ("2023-24").
TaxRates ==
    [y \in {2023} |-> [small_profits_rate |-> 19, main_rate |-> 25,
                       lower_limit |-> 50000, upper_limit |-> 250000]]

\* The year in which the tax year of day d starts (mid_date.year, less one
\* before 1 April), for the days -364..731.
TaxYearStartOfDay(d) == IF d <= 0 THEN 2022 ELSE IF d <= 366 THEN 2023 ELSE 2024

\* tax_year as derived from the middle of the accounting period.
DeriveTaxYear(start, end) == TaxYearStartOfDay(start + ((end - start) \div 2))

\* Database.filter_transactions(start_date, end_date)
FilterTransactions(txs, start, end) ==
    SelectSeq(txs, LAMBDA t : Get(t, "date", 0) >= start /\ Get(t, "date", 0) <= end)

RECURSIVE AllEntries(_)
AllEntries(txs) ==
    IF txs = <<>> THEN <<>>
    ELSE Get(Head(txs), "entries", <<>>) \o AllEntries(Tail(txs))

\* One entry's contribution to the running sum of the given account type and
\* trading flag; positive on the given side, negative on the other.
EntryAmount(chart, entry, account_type, trading, side) ==
    LET account_code == Get(entry, "account_code", "")
    IN  IF ~Has(chart, account_code) THEN 0
        ELSE IF chart[account_code].type = account_type
                /\ Get(chart[account_code], "trading", TRUE) = trading
        THEN IF Get(entry, "type", "") = side
             THEN Get(entry, "amount", 0) ELSE -Get(entry, "amount", 0)
        ELSE 0

\* The marginal-relief branch: tax_at_main_rate - marginal_relief, in pence,
\* with marginal_relief = r_diff * (2 * u_p_diff / u_l_diff) * taxable_profit.
\* The variant below leaves out the factor 2.
MarginalReliefTaxDueSingle(taxable_profit, rates) ==
    LET r_diff == rates.main_rate - rates.small_profits_rate
        u_l_diff == rates.upper_limit - rates.lower_limit
        u_p_diff == rates.upper_limit - taxable_profit
        marginal_relief == MulDivMod(r_diff * u_p_diff, taxable_profit, u_l_diff)
        tax_at_main_rate == taxable_profit * rates.main_rate
    IN  IF marginal_relief.r = 0
        THEN [w |-> tax_at_main_rate - marginal_relief.q, f |-> 0, den |-> u_l_diff]
        ELSE [w |-> tax_at_main_rate - marginal_relief.q - 1,
              f |-> u_l_diff - marginal_relief.r, den |-> u_l_diff]

MarginalReliefTaxDue(taxable_profit, rates) ==
    LET r_diff == rates.main_rate - rates.small_profits_rate
        u_l_diff == rates.upper_limit - rates.lower_limit
        u_p_diff == rates.upper_limit - taxable_profit
        marginal_relief == MulDivMod(r_diff * 2 * u_p_diff, taxable_profit, u_l_diff)
        tax_at_main_rate == taxable_profit * rates.main_rate
    IN  IF marginal_relief.r = 0
        THEN [w |-> tax_at_main_rate - marginal_relief.q, f |-> 0, den |-> u_l_diff]
        ELSE [w |-> tax_at_main_rate - marginal_relief.q - 1,
              f |-> u_l_diff - marginal_relief.r, den |-> u_l_diff]

\* tax_due before rounding, in pence, as w + f / den.
TaxDue(taxable_profit, rates) ==
    IF taxable_profit <= rates.lower_limit
    THEN [w |-> taxable_profit * rates.small_profits_rate, f |-> 0, den |-> 1]
    ELSE IF taxable_profit >= rates.upper_limit
    THEN [w |-> taxable_profit * rates.main_rate, f |-> 0, den |-> 1]
    ELSE MarginalReliefTaxDue(taxable_profit, rates)

\* round((tax_due / taxable_profit * 100) if taxable_profit > 0 else 0, 2), in
\* hundredths of a percent: (w + f / den) * 100 / taxable_profit, ties to even.
EffectiveRate(tax_due, taxable_profit) ==
    IF taxable_profit > 0
    THEN LET m == MulDivMod(tax_due.w, 100, taxable_profit)
             e == MulDivMod(tax_due.f, 100, tax_due.den)
             n == m.r + e.q
             whole == m.q + (n \div taxable_profit)
             rest == n % taxable_profit
             up == \/ 2 * rest > taxable_profit
                   \/ 2 * rest = taxable_profit /\ (e.r > 0 \/ whole % 2 = 1)
                   \/ 2 * rest = taxable_profit - 1 /\ 2 * e.r > tax_due.den
                   \/ 2 * rest = taxable_profit - 1 /\ 2 * e.r = tax_due.den
                      /\ whole % 2 = 1
         IN  IF up THEN whole + 1 ELSE whole
    ELSE 0

CorporationTaxReport(chart, txs, start, end, tax_year) ==
    LET rates == TaxRates[tax_year]
        entries == AllEntries(FilterTransactions(txs, start, end))
        trading_income ==
            SumSeq([n \in 1..Len(entries) |->
                       EntryAmount(chart, entries[n], "income", TRUE, "credit")])
        trading_expenses ==
            SumSeq([n \in 1..Len(entries) |->
                       EntryAmount(chart, entries[n], "expense", TRUE, "debit")])
        non_trading_income ==
            SumSeq([n \in 1..Len(entries) |->
                       EntryAmount(chart, entries[n], "income", FALSE, "credit")])
        non_trading_expenses ==
            SumSeq([n \in 1..Len(entries) |->
                       EntryAmount(chart, entries[n], "expense", FALSE, "debit")])
        total_income == trading_income + non_trading_income
        total_expenses == trading_expenses + non_trading_expenses
        taxable_profit == Max(0, total_income - total_expenses)
        tax_due == TaxDue(taxable_profit, rates)
    IN  [tax_year |-> tax_year,
         length_days |-> end - start + 1,
         trading_income |-> trading_income * 100,
         non_trading_income |-> non_trading_income * 100,
         total_income |-> total_income * 100,
         trading_expenses |-> trading_expenses * 100,
         non_trading_expenses |-> non_trading_expenses * 100,
         total_expenses |-> total_expenses * 100,
         taxable_profit |-> taxable_profit * 100,
         tax_rates |-> rates,
         tax_due |-> RoundHalfEven(tax_due),
         effective_rate |-> EffectiveRate(tax_due, taxable_profit)]

\* calculate_corporation_tax(start, end, tax_year); a tax_year of 0 is None.
CalculateCorporationTax(start, end, tax_year) ==
    LET year == IF tax_year = 0 THEN DeriveTaxYear(start, end) ELSE tax_year
    IN  /\ last' = IF year \in DOMAIN TaxRates
                   THEN [op |-> "calculate_corporation_tax", start |-> start, end |-> end,
                         tax_year |-> tax_year,
                         ok |-> TRUE,
                         result |-> CorporationTaxReport(chart_of_accounts, transactions,
                                                         start, end, year)]
                   ELSE [op |-> "calculate_corporation_tax", start |-> start, end |-> end,
                         tax_year |-> tax_year,
                         ok |-> FALSE, error |-> "ValueError"]
        /\ UNCHANGED <<databases, chart_of_accounts, transactions, invoices, uuid_counter, tax_store>>

\* Database.add_transaction called with a journal-style dict.
DatabaseAddTransaction(t) ==
    /\ Len(transactions) < MaxTx
    /\ transactions' = DbAddTransaction(transactions, t)
    /\ last' = [op |-> "Database.add_transaction", arg |-> t, ok |-> TRUE]
    /\ UNCHANGED <<databases, chart_of_accounts, invoices, uuid_counter, tax_store>>

\* Database.add_account: a code already in use raises ValueError.
DatabaseAddAccount(account) ==
    /\ IF Has(chart_of_accounts, account.code)
       THEN /\ UNCHANGED chart_of_accounts
            /\ last' = [op |-> "Database.add_account", arg |-> account, ok |-> FALSE]
       ELSE /\ chart_of_accounts' =
                   Put(chart_of_accounts, account.code,
                       [k \in DOMAIN account \ {"code"} |-> account[k]])
            /\ last' = [op |-> "Database.add_account", arg |-> account, ok |-> TRUE]
    /\ UNCHANGED <<databases, transactions, invoices, uuid_counter, tax_store>>

Entry(account_code, type, amount) ==
    [account_code |-> account_code, type |-> type, amount |-> amount]

\* Journal-style inputs: sales of 50000, 1 and 200000 less 1 of costs; costs
\* above any income; reversals and entries on accounts that do not count;
\* income outside the period; interest on a non-trading account; a flat record.
EntryTxInputs ==
    {[date |-> 100, entries |-> <<Entry("4000", "credit", 50000)>>],
     [date |-> 100, entries |-> <<Entry("4000", "credit", 1)>>],
     [entries |-> <<Entry("4000", "credit", 200000), Entry("5000", "debit", 1)>>],
     [date |-> 100, entries |-> <<Entry("5000", "debit", 60000)>>],
     [date |-> 100, entries |-> <<Entry("4000", "debit", 10), Entry("5000", "credit", 10),
                                  Entry("1200", "debit", 5), Entry("9999", "credit", 7)>>],
     [date |-> 400, entries |-> <<Entry("4000", "credit", 1000)>>],
     [date |-> 100, entries |-> <<Entry("4900", "credit", 200000)>>],
     [date |-> 100, account |-> "4000", debit |-> 0, credit |-> Pounds(100)]}

AccountInputs ==
    {[code |-> "4900", type |-> "income", balance |-> 0, trading |-> FALSE],
     [code |-> "4000", type |-> "income", balance |-> 0]}

AccountingPeriods == {<<1, 366>>, <<1, 99>>, <<367, 731>>, <<366, 1>>}

-----------------------------------------------------------------------------
(* hmrc/vat.py: VATReturnCalculator.calculate_vat_return *)

\* Python's round(x, 0) of x mils: the nearest whole pound, an exact half going
\* to the even pound.
PyRound0(x) ==
    LET q == x \div 1000
        r == x - q * 1000
    IN  IF 2 * r < 1000 THEN q * 1000
        ELSE IF 2 * r > 1000 THEN (q + 1) * 1000
        ELSE IF q % 2 = 0 THEN q * 1000 ELSE (q + 1) * 1000

\* strftime('%y%m') of day d, for the days 1..91 (April to June 2023).
YearMonth(d) == IF d <= 30 THEN 2304 ELSE IF d <= 61 THEN 2305 ELSE 2306

\* Database.filter_invoices(start_date, end_date); filter_expenses is the same
\* code over the expenses.
FilterByDate(records, start, end) ==
    SelectSeq(records, LAMBDA r : Get(r, "date", 0) >= start /\ Get(r, "date", 0) <= end)

\* Database.add_expense
DbAddExpense(exps, expense) ==
    LET ids == {exps[j]["id"] : j \in {k \in 1..Len(exps) : Has(exps[k], "id")}}
        max_id == IF ids = {} THEN 0 ELSE CHOOSE m \in ids : \A x \in ids : x <= m
        e1 == IF Has(expense, "id") THEN expense ELSE Put(expense, "id", max_id + 1)
    IN  Append(exps, IF Has(e1, "date") THEN e1 ELSE Put(e1, "date", Today))

\* Sign of the net VAT as the source reports it.
NetVatDue(total_vat_due, vat_input) == Abs(total_vat_due - vat_input)

VatReturnReport(invs, exps, start, end) ==
    LET sales == SelectSeq(FilterByDate(invs, start, end),
                     LAMBDA i : Get(i, "status", "") \notin {"void", "draft"})
        purchases == SelectSeq(FilterByDate(exps, start, end),
                         LAMBDA e : Get(e, "status", "") # "void")
        ec_sales == SelectSeq(sales, LAMBDA i : Get(i, "is_ec_sale", FALSE))
        ec_purchases == SelectSeq(purchases, LAMBDA e : Get(e, "is_ec_purchase", FALSE))
        sales_ex_vat == SumSeq([n \in 1..Len(sales) |-> Get(sales[n], "total_net", 0)])
        vat_output == SumSeq([n \in 1..Len(sales) |-> Get(sales[n], "total_vat", 0)])
        purchases_ex_vat ==
            SumSeq([n \in 1..Len(purchases) |-> Get(purchases[n], "net_amount", 0)])
        vat_input == SumSeq([n \in 1..Len(purchases) |-> Get(purchases[n], "vat_amount", 0)])
        ec_sales_ex_vat ==
            SumSeq([n \in 1..Len(ec_sales) |-> Get(ec_sales[n], "total_net", 0)])
        ec_purchases_ex_vat ==
            SumSeq([n \in 1..Len(ec_purchases) |-> Get(ec_purchases[n], "net_amount", 0)])
        vat_on_ec_acquisitions ==
            SumSeq([n \in 1..Len(ec_purchases) |-> Get(ec_purchases[n], "vat_amount", 0)])
        total_vat_due == vat_output + vat_on_ec_acquisitions
    IN  [periodKey |-> <<YearMonth(start), YearMonth(end)>>,
         vatDueSales |-> PyRound2(vat_output, 1),
         vatDueAcquisitions |-> PyRound2(vat_on_ec_acquisitions, 1),
         totalVatDue |-> PyRound2(total_vat_due, 1),
         vatReclaimedCurrPeriod |-> PyRound2(vat_input, 1),
         netVatDue |-> PyRound2(NetVatDue(total_vat_due, vat_input), 1),
         totalValueSalesExVAT |-> PyRound0(sales_ex_vat),
         totalValuePurchasesExVAT |-> PyRound0(purchases_ex_vat),
         totalValueGoodsSuppliedExVAT |-> PyRound0(ec_sales_ex_vat),
         totalAcquisitionsExVAT |-> PyRound0(ec_purchases_ex_vat),
         finalised |-> FALSE]

\* A variant that flags every stored invoice as reported while it calculates.
VatCalculateMarking(start, end) ==
    /\ Len(reports) < MaxReports
    /\ reports' = Append(reports, VatReturnReport(invoices, expenses, start, end))
    /\ invoices' = [n \in 1..Len(invoices) |-> Put(invoices[n], "reported", TRUE)]
    /\ last' = [op |-> "VATReturnCalculator.calculate_vat_return", start |-> start,
                end |-> end, ref |-> Len(reports) + 1, ok |-> TRUE,
                result |-> VatReturnReport(invoices, expenses, start, end)]
    /\ UNCHANGED <<databases, chart_of_accounts, transactions, uuid_counter, expenses, vat_returns,
                   draft>>

\* calculate_vat_return(start_date, end_date): the report is a new dict, kept
\* in reports for as long as a caller holds it.
VatCalculate(start, end) ==
    /\ Len(reports) < MaxReports
    /\ reports' = Append(reports, VatReturnReport(invoices, expenses, start, end))
    /\ last' = [op |-> "VATReturnCalculator.calculate_vat_return", start |-> start,
                end |-> end, ref |-> Len(reports) + 1, ok |-> TRUE,
                result |-> VatReturnReport(invoices, expenses, start, end)]
    /\ UNCHANGED <<databases, chart_of_accounts, transactions, invoices, uuid_counter, expenses,
                   vat_returns, draft>>

\* Database.add_invoice and Database.add_expense, called directly.
DatabaseAddInvoice(invoice) ==
    /\ Len(invoices) < MaxInvoices
    /\ invoices' = DbAddInvoice(invoices, invoice)
    /\ last' = [op |-> "Database.add_invoice", arg |-> invoice, ok |-> TRUE]
    /\ UNCHANGED <<databases, chart_of_accounts, transactions, uuid_counter, tax_store>>

DatabaseAddExpense(expense) ==
    /\ Len(expenses) < MaxExpenses
    /\ expenses' = DbAddExpense(expenses, expense)
    /\ last' = [op |-> "Database.add_expense", arg |-> expense, ok |-> TRUE]
    /\ UNCHANGED <<databases, chart_of_accounts, transactions, invoices, uuid_counter, vat_returns,
                   reports, draft>>

\* Records the calculator reads: a sale of 100.00 + 20.00 and a draft invoice it
\* skips; a purchase of 300.00 + 60.00 and an EC purchase of 2.50 + 0.50 dated on
\* the last day of the period 10..30; one output-VAT transaction for the ledger.
VatInvoiceInputs ==
    {[date |-> 20, total_net |-> Pounds(100), total_vat |-> Pounds(20), status |-> "sent"],
     [date |-> 20, total_net |-> Pounds(1000), total_vat |-> Pounds(200), status |-> "draft"]}

VatExpenseInputs ==
    {[date |-> 20, net_amount |-> Pounds(300), vat_amount |-> Pounds(60)],
     [date |-> 30, net_amount |-> Pounds(2) + 500, vat_amount |-> 500,
      is_ec_purchase |-> TRUE]}

VatCalcTxInputs ==
    {[account |-> "2100", debit |-> 0, credit |-> Pounds(40), date |-> 10]}

-----------------------------------------------------------------------------
(* hmrc/vat.py: stored VAT returns; hmrc/corporate_tax.py: the return dict *)

\* Database.add_vat_return: an id is assigned only when the dict has no "id"
\* key, a submission_date only when it has none.  An id of 0 is None, which is
\* not counted among the integer ids.
DbAddVatReturn(rets, vat_return) ==
    LET ids == {rets[j]["id"] : j \in {k \in 1..Len(rets) :
                    Has(rets[k], "id") /\ rets[k]["id"] # 0}}
        max_id == IF ids = {} THEN 0 ELSE CHOOSE m \in ids : \A x \in ids : x <= m
        r1 == IF Has(vat_return, "id") THEN vat_return
              ELSE Put(vat_return, "id", max_id + 1)
    IN  Append(rets, IF Has(r1, "submission_date") THEN r1
                     ELSE Put(r1, "submission_date", Today))

\* Database.get_vat_return_by_id: position of the first return whose .get("id")
\* equals the id, 0 when there is none.
DbGetVatReturnById(rets, id) ==
    FirstIndex({i \in 1..Len(rets) : Get(rets[i], "id", 0) = id})

\* Database.update_vat_return
DbUpdateVatReturn(rets, id, updated_data) ==
    LET i == DbGetVatReturnById(rets, id)
    IN  IF i = 0 THEN rets ELSE [rets EXCEPT ![i] = Put(updated_data, "id", id)]

\* save_draft_vat_return(vat_return_data, period_start, period_end): the report
\* dict numbered ref is stored by reference under "data", with "id": None.
SaveDraftVatReturn(ref, period_start, period_end) ==
    /\ ref \in 1..Len(reports)
    /\ Len(vat_returns) < MaxVatReturns
    /\ vat_returns' = DbAddVatReturn(vat_returns,
           [id |-> 0, period_start |-> period_start, period_end |-> period_end,
            period_key |-> Get(reports[ref], "periodKey", <<>>),
            created_at |-> Today, updated_at |-> Today, status |-> "draft",
            submission_date |-> 0, hmrc_receipt |-> "", data |-> ref])
    /\ last' = [op |-> "save_draft_vat_return", ref |-> ref, ok |-> TRUE]
    /\ UNCHANGED <<databases, chart_of_accounts, transactions, invoices, uuid_counter, expenses,
                   reports, draft>>

\* A variant of the status check that lets every return through.
AcceptsAnyStatus(vat_return) == vat_return = vat_return

\* The status checks of finalize_vat_return and of mark_submitted.
FinalizeAccepts(vat_return) == Get(vat_return, "status", "") = "draft"

SubmitAccepts(vat_return) == Get(vat_return, "status", "") \in {"draft", "finalized"}

\* finalize_vat_return(vat_return_id): the flag is set in the dict the return
\* refers to (a new dict when the return has no "data"); the status is kept.
FinalizeVatReturn(vat_return_id) ==
    LET i == DbGetVatReturnById(vat_returns, vat_return_id)
        vat_return == vat_returns[i]
        ref == IF Has(vat_return, "data") THEN vat_return["data"] ELSE Len(reports) + 1
    IN  /\ IF i # 0 /\ FinalizeAccepts(vat_return)
           THEN /\ reports' = IF Has(vat_return, "data")
                              THEN [reports EXCEPT ![ref] = Put(@, "finalised", TRUE)]
                              ELSE Append(reports, [finalised |-> TRUE])
                /\ vat_returns' = DbUpdateVatReturn(vat_returns, vat_return_id,
                                      Put(Put(vat_return, "data", ref), "updated_at", Today))
                /\ last' = [op |-> "finalize_vat_return", id |-> vat_return_id,
                            index |-> i, ok |-> TRUE]
           ELSE /\ UNCHANGED <<vat_returns, reports>>
                /\ last' = [op |-> "finalize_vat_return", id |-> vat_return_id,
                            index |-> i, ok |-> FALSE, error |-> "ValueError"]
        /\ UNCHANGED <<databases, chart_of_accounts, transactions, invoices, uuid_counter, expenses,
                       draft>>

\* mark_submitted(vat_return_id, receipt)
MarkSubmitted(vat_return_id, receipt) ==
    LET i == DbGetVatReturnById(vat_returns, vat_return_id)
        vat_return == vat_returns[i]
    IN  /\ IF i # 0 /\ SubmitAccepts(vat_return)
           THEN /\ vat_returns' = DbUpdateVatReturn(vat_returns, vat_return_id,
                       Put(Put(Put(Put(vat_return, "status", "submitted"),
                                   "submission_date", Today),
                               "hmrc_receipt", receipt),
                           "updated_at", Today))
                /\ last' = [op |-> "mark_submitted", id |-> vat_return_id, index |-> i,
                            ok |-> TRUE]
           ELSE /\ UNCHANGED vat_returns
                /\ last' = [op |-> "mark_submitted", id |-> vat_return_id, index |-> i,
                            ok |-> FALSE, error |-> "ValueError"]
        /\ UNCHANGED <<databases, chart_of_accounts, transactions, invoices, uuid_counter, expenses,
                       reports, draft>>

\* Ledger.submit_vat_return(vat_data): a return stored as submitted, with the
\* boxes copied and an integer id.
LedgerSubmitVatReturn(vat_data) ==
    /\ Len(vat_returns) < MaxVatReturns
    /\ vat_returns' = DbAddVatReturn(vat_returns,
           [period_start |-> Get(vat_data, "period_start", 0),
            period_end |-> Get(vat_data, "period_end", 0),
            submission_date |-> Today,
            vat_due_sales |-> Get(vat_data, "vat_due_sales", 0),
            vat_due_acquisitions |-> Get(vat_data, "vat_due_acquisitions", 0),
            total_vat_due |-> Get(vat_data, "total_vat_due", 0),
            vat_reclaimed |-> Get(vat_data, "vat_reclaimed", 0),
            net_vat_due |-> Get(vat_data, "net_vat_due", 0),
            total_sales_ex_vat |-> Get(vat_data, "total_sales_ex_vat", 0),
            total_purchases_ex_vat |-> Get(vat_data, "total_purchases_ex_vat", 0),
            total_supplies_ex_vat |-> Get(vat_data, "total_supplies_ex_vat", 0),
            total_acquisitions_ex_vat |-> Get(vat_data, "total_acquisitions_ex_vat", 0),
            status |-> "submitted"])
    /\ last' = [op |-> "Ledger.submit_vat_return", arg |-> vat_data, ok |-> TRUE]
    /\ UNCHANGED <<databases, chart_of_accounts, transactions, invoices, uuid_counter, expenses,
                   reports, draft>>

\* prepare_corporation_tax_return(accounting_period_start, accounting_period_end,
\* company_info): the calculation of the period, laid out for filing.
PrepareCorporationTaxReturn(start, end, company_info) ==
    LET year == DeriveTaxYear(start, end)
        tax_calculation ==
            CorporationTaxReport(chart_of_accounts, transactions, start, end, year)
    IN  /\ last' = IF year \in DOMAIN TaxRates
                   THEN [op |-> "prepare_corporation_tax_return", ok |-> TRUE,
                         result |->
                             [companyName |-> Get(company_info, "company_name", ""),
                              companyRegistrationNumber |-> Get(company_info, "crn", ""),
                              accountingPeriod |-> [startDate |-> start, endDate |-> end],
                              taxableProfit |-> tax_calculation.taxable_profit,
                              taxDue |-> tax_calculation.tax_due,
                              declaration |-> FALSE]]
                   ELSE [op |-> "prepare_corporation_tax_return", ok |-> FALSE,
                         error |-> "ValueError"]
        /\ UNCHANGED <<databases, chart_of_accounts, transactions, invoices, uuid_counter, tax_store>>

\* Ids a caller may pass: None (what save_draft_vat_return returns), the
\* integer ids of Ledger.submit_vat_return, and an id no return has.
VatReturnIds == {0, 1, 7}

VatReturnPeriods == {<<10, 30>>}

-----------------------------------------------------------------------------
(* core/tax.py: IncomeTaxReturn; core/ledger.py: Ledger.calculate_tax_return *)

BasicRateLimit == Pounds(37700)
HigherRateLimit == Pounds(150000)
PersonalAllowance == Pounds(12570)

\* The product rate/20 * amount of a rate in twentieths and an amount in mils,
\* exactly, as whole pence and a rest in twentieths of a mil (200 to the penny).
Twentieths(rate, amount) ==
    [pence |-> rate * (amount \div 200) + (rate * (amount % 200)) \div 200,
     rest |-> (rate * (amount % 200)) % 200]

AddTwentieths(a, b) ==
    [pence |-> a.pence + b.pence + (a.rest + b.rest) \div 200,
     rest |-> (a.rest + b.rest) % 200]

\* A variant of the tax that charges the higher band alone above the basic
\* rate limit.
IncomeTaxTwentiethsHigherOnly(taxable_income) ==
    IF taxable_income <= BasicRateLimit THEN Twentieths(4, taxable_income)
    ELSE Twentieths(8, taxable_income - BasicRateLimit)

\* IncomeTaxReturn._calculate_tax before rounding: 20% is 4/20, 40% is 8/20 and
\* 45% is 9/20.
IncomeTaxTwentieths(taxable_income) ==
    IF taxable_income <= BasicRateLimit THEN Twentieths(4, taxable_income)
    ELSE IF taxable_income <= HigherRateLimit
    THEN AddTwentieths(Twentieths(4, BasicRateLimit),
                       Twentieths(8, taxable_income - BasicRateLimit))
    ELSE AddTwentieths(AddTwentieths(Twentieths(4, BasicRateLimit),
                                     Twentieths(8, HigherRateLimit - BasicRateLimit)),
                       Twentieths(9, taxable_income - HigherRateLimit))

\* tax.quantize(Decimal('0.01'), rounding=ROUND_HALF_UP), in mils.
QuantizeTwentieths(n) == IF n.rest >= 100 THEN (n.pence + 1) * 10 ELSE n.pence * 10

IncomeTaxDue(taxable_income) ==
    IF taxable_income <= 0 THEN 0 ELSE QuantizeTwentieths(IncomeTaxTwentieths(taxable_income))

\* IncomeTaxReturn.calculate_totals on an object whose total_income,
\* total_expenses and tax_allowance the caller has set.
IncomeTaxCalculateTotals(total_income, total_expenses, tax_allowance) ==
    LET net_profit == total_income - total_expenses
        taxable_income == Max(0, net_profit - tax_allowance)
    IN  /\ last' = [op |-> "IncomeTaxReturn.calculate_totals", ok |-> TRUE,
                    total_income |-> total_income, total_expenses |-> total_expenses,
                    tax_allowance |-> tax_allowance, net_profit |-> net_profit,
                    taxable_income |-> taxable_income,
                    tax_due |-> IncomeTaxDue(taxable_income)]
        /\ UNCHANGED <<databases, chart_of_accounts, transactions, invoices, uuid_counter, tax_store>>

\* Day numbers of 6 April and of 5 April of the years 2023..2025.
AprilSixth(year) == IF year = 2023 THEN 6 ELSE IF year = 2024 THEN 372 ELSE 737
AprilFifth(year) == IF year = 2023 THEN 5 ELSE IF year = 2024 THEN 371 ELSE 736

\* Ledger.get_income_expenses: the sales invoices and the expenses as items.
IncomeExpenses(invs, exps) ==
    [n \in 1..Len(SelectSeq(invs, LAMBDA i : i["type"] = "sales")) |->
        [date |-> SelectSeq(invs, LAMBDA i : i["type"] = "sales")[n]["date"],
         income |-> SelectSeq(invs, LAMBDA i : i["type"] = "sales")[n]["amount"],
         expense |-> 0]]
    \o [n \in 1..Len(exps) |->
           [date |-> exps[n]["date"], income |-> 0, expense |-> exps[n]["amount"]]]

\* The tax of calculate_tax_return before rounding.
LedgerIncomeTaxTwentieths(taxable) ==
    IF taxable <= 0 THEN Twentieths(0, 0)
    ELSE IF taxable <= BasicRateLimit THEN Twentieths(4, taxable)
    ELSE LET higher_band ==
                 IF taxable - BasicRateLimit < HigherRateLimit - BasicRateLimit
                 THEN taxable - BasicRateLimit ELSE HigherRateLimit - BasicRateLimit
             additional_band == Max(0, taxable - HigherRateLimit)
         IN  AddTwentieths(
                 AddTwentieths(Twentieths(4, BasicRateLimit),
                     IF higher_band > 0 THEN Twentieths(8, higher_band)
                     ELSE Twentieths(0, 0)),
                 IF additional_band > 0 THEN Twentieths(9, additional_band)
                 ELSE Twentieths(0, 0))

\* round(tax, 2), in mils: to the nearest penny, a tie to the even penny.
RoundTwentieths(n) ==
    IF n.rest > 100 \/ (n.rest = 100 /\ n.pence % 2 = 1)
    THEN (n.pence + 1) * 10 ELSE n.pence * 10

LedgerIncomeTaxDue(taxable) == RoundTwentieths(LedgerIncomeTaxTwentieths(taxable))

\* calculate_tax_return(tax_year): tax_year is the pair of numbers written on
\* either side of the hyphen; the second is read as a four-digit year, so
\* "2023-24" raises ValueError and "2023-2024" is accepted.
LedgerCalculateTaxReturn(tax_year) ==
    LET start == AprilSixth(tax_year[1])
        end == AprilFifth(tax_year[2])
        items == SelectSeq(IncomeExpenses(invoices, expenses),
                     LAMBDA item : start <= item.date /\ item.date <= end)
        total_income == SumSeq([n \in 1..Len(items) |-> items[n].income])
        total_expenses == SumSeq([n \in 1..Len(items) |-> items[n].expense])
        net_profit == total_income - total_expenses
        taxable_income == Max(0, net_profit - PersonalAllowance)
    IN  /\ last' = IF tax_year[2] >= 1000
                   THEN [op |-> "Ledger.calculate_tax_return", ok |-> TRUE,
                         tax_year |-> tax_year, period_start |-> start,
                         period_end |-> end, total_income |-> total_income,
                         total_expenses |-> total_expenses, net_profit |-> net_profit,
                         tax_allowance |-> PersonalAllowance,
                         taxable_income |-> taxable_income,
                         tax_due |-> LedgerIncomeTaxDue(taxable_income)]
                   ELSE [op |-> "Ledger.calculate_tax_return", ok |-> FALSE,
                         tax_year |-> tax_year, error |-> "ValueError"]
        /\ UNCHANGED <<databases, chart_of_accounts, transactions, invoices, uuid_counter, tax_store>>

\* Profits around the band limits: a penny below, at, and one to three pence
\* above a limit, for the allowances 0 and 12,570.
BandEdges == {BasicRateLimit, HigherRateLimit,
              PersonalAllowance + BasicRateLimit, PersonalAllowance + HigherRateLimit}

IncomeInputs == {e + 10 * k : e \in BandEdges, k \in {-1, 0, 1, 2, 3}}

\* Sales invoices and an expense for calculate_tax_return: with the expense
\* deducted the first invoice leaves a taxable income a penny below the basic
\* rate limit, and the others lift it across that limit or the higher one.
TaxInvoiceInputs ==
    {[type |-> "sales", date |-> 20, entity_name |-> "c", amount |-> amount,
      invoice_number |-> <<"T1">>, payment_status |-> "unpaid"] :
        amount \in {PersonalAllowance + BasicRateLimit + Pounds(100) - 10, 10, 30,
                    HigherRateLimit - BasicRateLimit + 20}}
    \cup {[type |-> "purchase", date |-> 20, entity_name |-> "s", amount |-> Pounds(5000),
           invoice_number |-> <<"T2">>, payment_status |-> "unpaid"]}

TaxExpenseInputs ==
    {[date |-> 6, category |-> "x", description |-> "d", amount |-> Pounds(100),
      receipt_number |-> "r", status |-> "paid"]}

TaxYears == {<<2023, 24>>, <<2023, 2024>>, <<2024, 2025>>}

-----------------------------------------------------------------------------
(* hmrc/income_tax.py: IncomeTaxCalculator *)

Min(a, b) == IF a <= b THEN a ELSE b

\* The tables of __init__, rates in ten-thousandths (0.20 is 2000, 0.085 is
\* 850); one tax year has an entry.
tax_bands ==
    [year \in {"2023-24"} |->
        [personal_allowance |-> Pounds(12570),
         basic_rate |-> [threshold |-> Pounds(50270), rate |-> 2000],
         higher_rate |-> [threshold |-> Pounds(125140), rate |-> 4000],
         additional_rate |-> [rate |-> 4500]]]

ni_rates ==
    [year \in {"2023-24"} |->
        [class2 |-> [rate |-> 3450, threshold |-> Pounds(12570)],
         class4 |-> [lower_threshold |-> Pounds(12570),
                     upper_threshold |-> Pounds(50270),
                     lower_rate |-> 900, upper_rate |-> 200]]]

dividend_rates ==
    [year \in {"2023-24"} |->
        [allowance |-> Pounds(1000), basic_rate |-> 850, higher_rate |-> 3375,
         additional_rate |-> 3935]]

\* amount * rate, exactly, for an amount of mils (>= 0) and a rate in
\* ten-thousandths: whole pence and a rest in hundred-thousandths of a penny.
RateProduct(amount, rate) ==
    [pence |-> rate * (amount \div 100000) + (rate * (amount % 100000)) \div 100000,
     rest |-> (rate * (amount % 100000)) % 100000]

AddRate(a, b) ==
    [pence |-> a.pence + b.pence + (a.rest + b.rest) \div 100000,
     rest |-> (a.rest + b.rest) % 100000]

\* A whole number of pence, given in mils, as such a product.
RateOfMils(m) == [pence |-> m \div 10, rest |-> (m % 10) * 10000]

\* round(x, 2), in mils: the nearest penny, a tie to the even penny.
RoundRate(n) ==
    IF n.rest > 50000 \/ (n.rest = 50000 /\ n.pence % 2 = 1)
    THEN (n.pence + 1) * 10 ELSE n.pence * 10

\* The locals of _calculate_dividend_tax once the dividend is positive.
DividendBands(tax_year, dividend_income, other_taxable_income) ==
    LET div_rates == dividend_rates[tax_year]
        bands == tax_bands[tax_year]
        dividend_allowance == div_rates.allowance
        basic_limit == bands.basic_rate.threshold - bands.personal_allowance
        higher_limit == bands.higher_rate.threshold - bands.personal_allowance
        remaining_basic_band == Max(0, basic_limit - other_taxable_income)
        remaining_higher_band ==
            Max(0, higher_limit - Max(0, other_taxable_income - basic_limit))
        taxable_dividend == Max(0, dividend_income - dividend_allowance)
        div_basic_band == Min(remaining_basic_band, taxable_dividend)
        div_higher_band ==
            Min(remaining_higher_band, Max(0, taxable_dividend - div_basic_band))
        div_additional_band ==
            Max(0, taxable_dividend - div_basic_band - div_higher_band)
    IN  [basic_limit |-> basic_limit, higher_limit |-> higher_limit,
         taxable_dividend |-> taxable_dividend,
         div_basic_band |-> div_basic_band,
         div_higher_band |-> div_higher_band,
         div_additional_band |-> div_additional_band]

\* The value _calculate_dividend_tax returns for a known tax year, unrounded.
DividendTax(tax_year, dividend_income, other_taxable_income) ==
    IF dividend_income <= 0 THEN RateOfMils(0)
    ELSE LET b == DividendBands(tax_year, dividend_income, other_taxable_income)
             div_rates == dividend_rates[tax_year]
         IN  AddRate(AddRate(RateProduct(b.div_basic_band, div_rates.basic_rate),
                             RateProduct(b.div_higher_band, div_rates.higher_rate)),
                     RateProduct(b.div_additional_band, div_rates.additional_rate))

\* _calculate_dividend_tax(tax_year, dividend_income, other_taxable_income);
\* the record of the call keeps the bands the dividend was spread over.
CalculateDividendTax(tax_year, dividend_income, other_taxable_income) ==
    /\ last' =
           IF tax_year \notin DOMAIN dividend_rates \/ tax_year \notin DOMAIN tax_bands
           THEN [op |-> "IncomeTaxCalculator._calculate_dividend_tax", ok |-> FALSE,
                 tax_year |-> tax_year, error |-> "ValueError"]
           ELSE [op |-> "IncomeTaxCalculator._calculate_dividend_tax", ok |-> TRUE,
                 tax_year |-> tax_year, dividend_income |-> dividend_income,
                 other_taxable_income |-> other_taxable_income,
                 taxed |-> dividend_income > 0,
                 bands |-> DividendBands(tax_year, dividend_income,
                                         other_taxable_income),
                 result |-> DividendTax(tax_year, dividend_income,
                                        other_taxable_income)]
    /\ UNCHANGED <<databases, chart_of_accounts, transactions, invoices, uuid_counter, tax_store>>

\* _calculate_national_insurance for a known tax year.
NationalInsurance(tax_year, self_employment_income) ==
    LET ni == ni_rates[tax_year]
        class2 == IF self_employment_income > ni.class2.threshold
                  THEN ni.class2.rate * 52 ELSE 0
        class4_income_lower ==
            Min(self_employment_income - ni.class4.lower_threshold,
                ni.class4.upper_threshold - ni.class4.lower_threshold)
        class4_lower == IF self_employment_income > ni.class4.lower_threshold
                        THEN RateProduct(class4_income_lower, ni.class4.lower_rate)
                        ELSE RateOfMils(0)
        class4_upper == IF self_employment_income > ni.class4.upper_threshold
                        THEN RateProduct(self_employment_income
                                           - ni.class4.upper_threshold,
                                         ni.class4.upper_rate)
                        ELSE RateOfMils(0)
        class4 == AddRate(class4_lower, class4_upper)
    IN  [class2 |-> PyRound2(class2, 1),
         class4 |-> RoundRate(class4),
         class4_lower |-> RoundRate(class4_lower),
         class4_upper |-> RoundRate(class4_upper),
         total |-> RoundRate(AddRate(RateOfMils(class2), class4))]

\* The dict calculate_income_tax returns for a known tax year.  The halving of
\* the allowance taper is exact for incomes of whole pence.
IncomeTaxResult(tax_year, income_data) ==
    LET bands == tax_bands[tax_year]
        dividends == Get(income_data, "dividends", 0)
        total_income == Get(income_data, "employment_income", 0)
                        + Get(income_data, "self_employment_income", 0)
                        + Get(income_data, "property_income", 0)
                        + dividends
        total_deductions == Get(income_data, "pension_contributions", 0)
                            + Get(income_data, "gift_aid_donations", 0)
                            + Get(income_data, "other_deductions", 0)
        taxable_income == Max(0, total_income - total_deductions)
        personal_allowance ==
            IF total_income > Pounds(100000)
            THEN bands.personal_allowance
                 - Min(bands.personal_allowance,
                       (total_income - Pounds(100000)) \div 2)
            ELSE bands.personal_allowance
        taxable_after_allowance == Max(0, taxable_income - personal_allowance)
        basic_rate_band ==
            Min(bands.basic_rate.threshold - bands.personal_allowance,
                taxable_after_allowance)
        higher_rate_band ==
            Min(bands.higher_rate.threshold - bands.basic_rate.threshold,
                Max(0, taxable_after_allowance - basic_rate_band))
        additional_rate_band ==
            Max(0, taxable_after_allowance - basic_rate_band - higher_rate_band)
        basic_rate_tax == RateProduct(basic_rate_band, bands.basic_rate.rate)
        higher_rate_tax == RateProduct(higher_rate_band, bands.higher_rate.rate)
        additional_rate_tax ==
            RateProduct(additional_rate_band, bands.additional_rate.rate)
        total_tax == AddRate(AddRate(basic_rate_tax, higher_rate_tax),
                             additional_rate_tax)
        dividend_tax ==
            DividendTax(tax_year, dividends, taxable_after_allowance - dividends)
        ni_contributions ==
            NationalInsurance(tax_year,
                              Get(income_data, "self_employment_income", 0))
    IN  [tax_year |-> tax_year,
         total_income |-> PyRound2(total_income, 1),
         total_deductions |-> PyRound2(total_deductions, 1),
         taxable_income |-> PyRound2(taxable_income, 1),
         personal_allowance |-> PyRound2(personal_allowance, 1),
         taxable_after_allowance |-> PyRound2(taxable_after_allowance, 1),
         tax_bands |->
             [basic_rate |-> [amount |-> PyRound2(basic_rate_band, 1),
                              tax |-> RoundRate(basic_rate_tax)],
              higher_rate |-> [amount |-> PyRound2(higher_rate_band, 1),
                               tax |-> RoundRate(higher_rate_tax)],
              additional_rate |-> [amount |-> PyRound2(additional_rate_band, 1),
                                   tax |-> RoundRate(additional_rate_tax)]],
         income_tax |-> RoundRate(total_tax),
         dividend_tax |-> RoundRate(dividend_tax),
         total_income_tax |-> RoundRate(AddRate(total_tax, dividend_tax)),
         national_insurance |-> ni_contributions,
         total_tax_and_ni |->
             RoundRate(AddRate(AddRate(total_tax, dividend_tax),
                               RateOfMils(ni_contributions.total)))]

\* IncomeTaxCalculator.calculate_income_tax(tax_year, income_data).
CalculateIncomeTax(tax_year, income_data) ==
    /\ last' =
           IF tax_year \notin DOMAIN tax_bands
           THEN [op |-> "IncomeTaxCalculator.calculate_income_tax", ok |-> FALSE,
                 tax_year |-> tax_year, income_data |-> income_data,
                 error |-> "ValueError"]
           ELSE [op |-> "IncomeTaxCalculator.calculate_income_tax", ok |-> TRUE,
                 tax_year |-> tax_year, income_data |-> income_data,
                 result |-> IncomeTaxResult(tax_year, income_data)]
    /\ UNCHANGED <<databases, chart_of_accounts, transactions, invoices, uuid_counter, tax_store>>

\* Tax years as written by a caller: the one in the tables, one that is not,
\* and one that is no tax year.
TaxYearInputs == {"2023-24", "2022-23", "garbage"}

\* Dividends and other taxable income for _calculate_dividend_tax: other
\* income below, at and above the two limits 37,700 and 112,570.
DividendInputs ==
    {0, Pounds(500), Pounds(5000), Pounds(10000), Pounds(50000), Pounds(200000)}

OtherIncomeInputs ==
    {-Pounds(5000), 0, Pounds(30000), Pounds(37700), Pounds(50000),
     Pounds(112570), Pounds(200000)}

\* income_data dicts: with and without dividends, below and above 100,000.
IncomeDataInputs ==
    {[employment_income |-> e, self_employment_income |-> s, dividends |-> d] :
         e \in {0, Pounds(30000), Pounds(130000)},
         s \in {0, Pounds(20000), Pounds(60000)},
         d \in {0, Pounds(500), Pounds(5000)}}
    \cup {[employment_income |-> e, other_deductions |-> Pounds(1000)] :
              e \in {Pounds(30000), Pounds(130001)}}
    \cup {<<>>}

-----------------------------------------------------------------------------
(* core/tax.py: TaxManager.calculate_income_tax_return *)

\* int(s) for the texts used as the parts of a tax year; a text outside the
\* domain is one int() raises ValueError for.
PyInt == [s \in {"2023", "2024", "24", "25"} |->
             IF s = "2023" THEN 2023 ELSE IF s = "2024" THEN 2024
             ELSE IF s = "24" THEN 24 ELSE 25]

\* IncomeTaxReturn(tax_year): tax_year is given as tax_year.split("-"), <<>>
\* for None; an unparseable year is logged and leaves both dates None (0).
IncomeTaxReturnNew(tax_year) ==
    LET parsed == tax_year # <<>> /\ tax_year[1] \in DOMAIN PyInt
    IN  [tax_year |-> tax_year,
         period_start |-> IF parsed THEN AprilSixth(PyInt[tax_year[1]]) ELSE 0,
         period_end |-> IF parsed THEN AprilFifth(PyInt[tax_year[1]] + 1) ELSE 0,
         total_income |-> 0, total_expenses |-> 0, net_profit |-> 0,
         tax_allowance |-> 0, taxable_income |-> 0, tax_due |-> 0,
         submission_date |-> 0, status |-> "draft"]

\* TaxManager.calculate_income_tax_return(tax_year): the return object handed
\* back; without period dates it is handed back as constructed.
TaxManagerCalculateIncomeTaxReturn(tax_year) ==
    LET tax_return == IncomeTaxReturnNew(tax_year)
        period_items ==
            SelectSeq(IncomeExpenses(invoices, expenses),
                LAMBDA ie : tax_return.period_start <= ie.date
                            /\ ie.date <= tax_return.period_end)
        total_income == SumSeq([n \in 1..Len(period_items) |-> period_items[n].income])
        total_expenses ==
            SumSeq([n \in 1..Len(period_items) |-> period_items[n].expense])
        net_profit == total_income - total_expenses
        taxable_income == Max(0, net_profit - PersonalAllowance)
    IN  /\ last' =
               [op |-> "TaxManager.calculate_income_tax_return", ok |-> TRUE,
                tax_year |-> tax_year,
                result |->
                    IF tax_return.period_start = 0 \/ tax_return.period_end = 0
                    THEN tax_return
                    ELSE [tax_return EXCEPT
                              !.total_income = total_income,
                              !.total_expenses = total_expenses,
                              !.tax_allowance = PersonalAllowance,
                              !.net_profit = net_profit,
                              !.taxable_income = taxable_income,
                              !.tax_due = IncomeTaxDue(taxable_income)]]
        /\ UNCHANGED <<databases, chart_of_accounts, transactions, invoices, uuid_counter, tax_store>>

\* "2023-24", "2024-25", "garbage", "twenty-24" and None.
TaxManagerYears ==
    {<<"2023", "24">>, <<"2024", "25">>, <<"garbage">>, <<"twenty", "24">>, <<>>}

-----------------------------------------------------------------------------
(* core/transaction.py: TransactionManager.create_journal_entry *)

\* str(uuid.uuid4())[:8] of the k-th uuid drawn, as the text put into a
\* generated document number.
UuidText(k) == <<"u1", "u2", "u3", "u4", "u5", "u6", "u7", "u8", "u9", "u10", "u11",
                 "u12", "u13", "u14", "u15", "u16">>[k]

\* One round of the loop over the entries: the Transaction built from the
\* entry is added when it validates and passed over when it does not;
\* entry["account"] of an entry without account raises KeyError, which ends
\* the loop.  st = [txs, uuid, raised, success_count].
JournalPostEntry(st, date, entry, document_number) ==
    IF st.raised THEN st
    ELSE IF ~Has(entry, "account") THEN [st EXCEPT !.raised = TRUE]
    ELSE LET tr == TransactionFromDict(
                       [date |-> date, account |-> entry["account"],
                        debit |-> Get(entry, "debit", 0),
                        credit |-> Get(entry, "credit", 0),
                        vat |-> Get(entry, "vat", 0),
                        document_number |-> document_number,
                        status |-> "unreconciled",
                        transaction_type |-> "journal"],
                       UuidBase + st.uuid + 1)
         IN  IF TransactionValidate(tr)
             THEN [st EXCEPT !.txs = DbAddTransaction(st.txs, tr),
                             !.uuid = st.uuid + 1,
                             !.success_count = st.success_count + 1]
             ELSE st

RECURSIVE JournalPost(_, _, _, _)
JournalPost(st, date, entries, document_number) ==
    IF entries = <<>> THEN st
    ELSE JournalPost(JournalPostEntry(st, date, Head(entries), document_number),
                     date, Tail(entries), document_number)

\* create_journal_entry(date, description, entries, document_number); a
\* document_number of <<>> is None.
TMCreateJournalEntry(date, entries, document_number) ==
    LET generated == document_number = <<>>
        doc == IF generated THEN <<"JRN", UuidText(uuid_counter + 1)>>
               ELSE document_number
        total_debit == SumSeq([n \in 1..Len(entries) |-> Get(entries[n], "debit", 0)])
        total_credit == SumSeq([n \in 1..Len(entries) |-> Get(entries[n], "credit", 0)])
        st == JournalPost([txs |-> transactions,
                           uuid |-> IF generated THEN uuid_counter + 1 ELSE uuid_counter,
                           raised |-> FALSE, success_count |-> 0],
                          date, entries, doc)
    IN  /\ Len(transactions) + Len(entries) <= MaxJournalLegs
        /\ uuid_counter + Len(entries) + 1 <= MaxUuid
        /\ IF total_debit # total_credit
           THEN /\ UNCHANGED <<transactions, uuid_counter>>
                /\ last' = [op |-> "TransactionManager.create_journal_entry",
                            date |-> date, entries |-> entries,
                            document_number |-> doc, ok |-> FALSE,
                            error |-> "unbalanced"]
           ELSE /\ transactions' = st.txs
                /\ uuid_counter' = IF st.txs = transactions THEN uuid_counter ELSE st.uuid
                /\ last' = [op |-> "TransactionManager.create_journal_entry",
                            date |-> date, entries |-> entries,
                            document_number |-> doc, ok |-> ~st.raised,
                            error |-> IF st.raised THEN "KeyError" ELSE "",
                            success_count |-> st.success_count]
        /\ UNCHANGED <<databases, chart_of_accounts, invoices, tax_store>>

\* Journals: balanced and unbalanced pairs, a balanced total carried by an
\* entry with both sides, halves of a penny, an entry without account after a
\* good one, negative amounts, and no entries.
JournalInputs ==
    {<<[account |-> "1200", debit |-> Pounds(100)],
       [account |-> "4000", credit |-> Pounds(100)]>>,
     <<[account |-> "1200", debit |-> Pounds(100)],
       [account |-> "4000", credit |-> Pounds(90)]>>,
     <<[account |-> "1200", debit |-> Pounds(100)],
       [account |-> "4000", debit |-> Pounds(50), credit |-> Pounds(150)]>>,
     <<[account |-> "1200", debit |-> 5], [account |-> "4000", credit |-> 2],
       [account |-> "4000", credit |-> 3]>>,
     <<[account |-> "1200", debit |-> Pounds(100)], [credit |-> Pounds(100)]>>,
     <<[account |-> "1200", debit |-> -Pounds(100)],
       [account |-> "4000", credit |-> -Pounds(100)]>>,
     <<>>}

-----------------------------------------------------------------------------
(* core/ledger.py: add_expense and _create_expense_transaction *)

\* category_account_map.get(category, "5000")
CategoryAccount(category) ==
    CASE category = "office" -> "5300"
      [] category = "travel" -> "5700"
      [] category = "marketing" -> "5500"
      [] category = "rent" -> "5200"
      [] category = "utilities" -> "5300"
      [] category = "software" -> "5300"
      [] category = "professional" -> "5800"
      [] category = "salary" -> "5100"
      [] category = "bank" -> "5900"
      [] OTHER -> "5000"

\* The defaults add_expense writes into the caller's dict; gen stands for the
\* uuid-derived part of a generated receipt number.
LedgerExpenseDefaults(data, gen) ==
    LET d1 == IF Has(data, "date") THEN data ELSE Put(data, "date", Today)
        d2 == IF Has(d1, "receipt_number") THEN d1
              ELSE Put(d1, "receipt_number", <<"EXP", "GEN", gen>>)
        d3 == IF Has(d2, "status") THEN d2 ELSE Put(d2, "status", "paid")
        d4 == IF Has(d3, "vat") THEN d3
              ELSE Put(d3, "vat", PyRound2(d3["amount"] * Get(d3, "vat_rate", 20), 100))
    IN  Put(d4, "type", "expense")

\* _create_expense_transaction: two or three legs posted from one dict.
CreateExpenseTransaction(chart, txs, expense_data) ==
    LET amount == expense_data["amount"]
        vat == Get(expense_data, "vat", 0)
        total == amount + vat
        expense_account == CategoryAccount(expense_data["category"])
        payment_account ==
            IF Get(expense_data, "payment_method", "cash") = "cash" THEN "1000" ELSE "1100"
        st0 == [chart |-> chart, txs |-> txs, aliases |-> {}, raised |-> FALSE,
                dict |-> [date |-> expense_data["date"],
                          document_number |-> expense_data["receipt_number"],
                          transaction_type |-> "expense",
                          status |-> "unreconciled"]]
        s1 == LedgerPostLeg(st0, expense_account, amount, 0, 0)
        s2 == IF vat > 0 THEN LedgerPostLeg(s1, "2200", vat, 0, vat) ELSE s1
    IN  LedgerPostLeg(s2, payment_account, 0, total, 0)

LedgerAddExpense(expense_data) ==
    /\ Len(expenses) < MaxExpenses
    /\ Len(transactions) + 3 <= MaxLegs
    /\ uuid_counter < MaxUuid
    /\ UNCHANGED <<invoices, vat_returns, reports, draft, databases>>
    /\ IF {"amount", "category", "description"} \subseteq DOMAIN expense_data
       THEN LET expense == LedgerExpenseDefaults(expense_data, uuid_counter + 1)
                stored == DbAddExpense(expenses, expense)
                posted == CreateExpenseTransaction(chart_of_accounts, transactions,
                                                   stored[Len(stored)])
            IN  /\ expenses' = stored
                /\ uuid_counter' = IF Has(expense_data, "receipt_number")
                                   THEN uuid_counter ELSE uuid_counter + 1
                /\ IF Get(expense, "auto_post", TRUE)
                   THEN /\ transactions' = posted.txs
                        /\ chart_of_accounts' = posted.chart
                   ELSE UNCHANGED <<transactions, chart_of_accounts>>
                /\ last' = [op |-> "Ledger.add_expense", arg |-> expense_data,
                            expense |-> stored[Len(stored)], ok |-> TRUE]
       ELSE /\ UNCHANGED <<expenses, uuid_counter, transactions, chart_of_accounts>>
            /\ last' = [op |-> "Ledger.add_expense", arg |-> expense_data, ok |-> FALSE]

\* Expenses: one with VAT left to the default and paid from the bank, and one
\* that lacks a required field.
LedgerExpenseInputs ==
    {[amount |-> Pounds(50), category |-> "office", description |-> "d",
      receipt_number |-> <<"R1">>, payment_method |-> "bank"],
     [amount |-> Pounds(10), category |-> "office"]}

\* A transaction, an invoice and the edits of the id check: an update that
\* carries only a status, and one that carries an id of its own.
IdTxInputs == {[account |-> "1200", debit |-> Pounds(100), credit |-> 0]}

IdInvoiceInputs ==
    {[type |-> "sales", entity_name |-> "c", amount |-> Pounds(100), vat |-> Pounds(20),
      invoice_number |-> <<"I1">>, date |-> Today]}

IdUpdateInputs ==
    {[status |-> "reconciled"],
     [id |-> 5, account |-> "1200", debit |-> Pounds(7), credit |-> 0]}

-----------------------------------------------------------------------------
(* data/database.py: Database instances of several processes on one file *)

\* The processes that each hold a Database instance on the same db_file.
Instances == {"a", "b"}

\* file: data["transactions"] as serialized in db_file (empty while the file
\* does not exist); data[p]: self.data["transactions"] of p's instance;
\* opened[p]: p has constructed its instance; loaded[p]: what _load_database
\* read when p constructed it.
NoDatabases ==
    [file |-> <<>>,
     data |-> [p \in Instances |-> <<>>],
     opened |-> [p \in Instances |-> FALSE],
     loaded |-> [p \in Instances |-> <<>>]]

\* A variant of save that keeps the records of the file that the writer does
\* not hold.
SaveKeepingOthers(file, data) ==
    SelectSeq(file, LAMBDA r : \A i \in 1..Len(data) : data[i] # r) \o data

\* Database.save: the file is opened with 'w' and the instance's own data is
\* dumped into it; what the file held is not read.
Save(file, data) == data

\* Database.__init__ / _load_database: a file that exists is read into
\* self.data; when there is none the empty schema is saved.
InstanceOpen(p) ==
    /\ ~databases.opened[p]
    /\ databases' = [databases EXCEPT !.opened[p] = TRUE,
                                      !.data[p] = databases.file,
                                      !.loaded[p] = databases.file]
    /\ last' = [op |-> "Database.__init__", instance |-> p, ok |-> TRUE,
                saved |-> FALSE]
    /\ UNCHANGED <<chart_of_accounts, transactions, invoices, uuid_counter, tax_store>>

\* Database.add_transaction on p's instance: id and date stamped from p's own
\* data, the record appended to it, then save().
InstanceAddTransaction(p, t) ==
    LET data == DbAddTransaction(databases.data[p], t)
    IN  /\ databases.opened[p]
        /\ Len(databases.data[p]) < MaxTx
        /\ databases' = [databases EXCEPT !.data[p] = data,
                                          !.file = Save(databases.file, data)]
        /\ last' = [op |-> "Database.add_transaction", instance |-> p, arg |-> t,
                    ok |-> TRUE, saved |-> TRUE, result |-> data[Len(data)]["id"]]
        /\ UNCHANGED <<chart_of_accounts, transactions, invoices, uuid_counter,
                       tax_store>>

\* Database.delete_transaction on p's instance: the first record with the id
\* is removed and the data saved; False, and no save, when there is none.
InstanceDeleteTransaction(p, id) ==
    LET found == DbFindTransaction(databases.data[p], id) # 0
        data == DbDeleteTransaction(databases.data[p], id)
    IN  /\ databases.opened[p]
        /\ databases' = IF found
                        THEN [databases EXCEPT !.data[p] = data,
                                               !.file = Save(databases.file, data)]
                        ELSE databases
        /\ last' = [op |-> "Database.delete_transaction", instance |-> p, id |-> id,
                    ok |-> TRUE, saved |-> found, result |-> found]
        /\ UNCHANGED <<chart_of_accounts, transactions, invoices, uuid_counter,
                       tax_store>>

\* The transaction a process adds carries its name in the description.
InstanceTxInputs(p) ==
    {[account |-> "1200", debit |-> Pounds(100), credit |-> 0, description |-> p]}

-----------------------------------------------------------------------------
(* Specifications *)

Init ==
    /\ chart_of_accounts = DefaultChart
    /\ transactions = <<>>
    /\ invoices = <<>>
    /\ uuid_counter = 0
    /\ expenses = <<>>
    /\ vat_returns = <<>>
    /\ reports = <<>>
    /\ draft = <<>>
    /\ databases = NoDatabases
    /\ last = [op |-> "init"]

\* The ledger's three transaction operations alone.
NextLedgerTx ==
    \/ \E t \in LedgerTxInputs : LedgerAddTransaction(t)
    \/ \E id \in TxIds, t \in LedgerTxInputs : LedgerUpdateTransaction(id, t)
    \/ \E id \in TxIds : LedgerDeleteTransaction(id)

SpecLedgerTx == Init /\ [][NextLedgerTx]_vars

\* Invoices posted through the ledger, and the VAT return computed from them.
NextLedgerInvoice ==
    \/ \E d \in LedgerInvoiceInputs : LedgerAddInvoice(d)
    \/ \E p \in VatPeriods : LedgerCalculateVatReturn(p[1], p[2])

SpecLedgerInvoice == Init /\ [][NextLedgerInvoice]_vars

\* Invoices built and posted through the invoice manager.
NextInvoice ==
    \E d \in InvoiceInputs : IMAddInvoice(d)

SpecInvoice == Init /\ [][NextInvoice]_vars

\* Corporation tax computed over journal-style records.
NextCorporateTax ==
    \/ \E t \in EntryTxInputs : DatabaseAddTransaction(t)
    \/ \E a \in AccountInputs : DatabaseAddAccount(a)
    \/ \E p \in AccountingPeriods, y \in {0, 2023, 2024} :
           CalculateCorporationTax(p[1], p[2], y)

SpecCorporateTax == Init /\ [][NextCorporateTax]_vars

\* The transaction manager's add and update operations alone.
NextTM ==
    \/ \E d \in TMAddInputs : TMAddTransaction(d)
    \/ \E id \in UuidIds, d \in TMUpdateInputs : TMUpdateTransaction(id, d)

SpecTM == Init /\ [][NextTM]_vars

\* Both ways of adding a transaction: through the ledger and through the manager.
NextAdd ==
    \/ \E t \in LedgerTxInputs : LedgerAddTransaction(t)
    \/ \E d \in TMAddInputs : TMAddTransaction(d)

SpecAdd == Init /\ [][NextAdd]_vars

\* Transactions posted through the ledger and the VAT return computed from them.
NextLedgerVat ==
    \/ \E t \in VatTxInputs : LedgerAddTransaction(t)
    \/ \E p \in VatPeriods : LedgerCalculateVatReturn(p[1], p[2])

SpecLedgerVat == Init /\ [][NextLedgerVat]_vars

\* The two VAT calculators over stored transactions, invoices and expenses.
NextVatCalc ==
    \/ \E i \in VatInvoiceInputs : DatabaseAddInvoice(i)
    \/ \E e \in VatExpenseInputs : DatabaseAddExpense(e)
    \/ \E t \in VatCalcTxInputs : LedgerAddTransaction(t)
    \/ \E p \in VatPeriods : VatCalculate(p[1], p[2])
    \/ \E p \in VatPeriods : LedgerCalculateVatReturn(p[1], p[2])

SpecVatCalc == Init /\ [][NextVatCalc]_vars

\* VAT returns calculated, saved, finalised and submitted, and the corporation
\* tax return prepared.
NextVatReturn ==
    \/ \E e \in VatExpenseInputs : DatabaseAddExpense(e)
    \/ \E p \in VatReturnPeriods : VatCalculate(p[1], p[2])
    \/ \E ref \in 1..MaxReports, p \in VatReturnPeriods :
           SaveDraftVatReturn(ref, p[1], p[2])
    \/ \E id \in VatReturnIds : FinalizeVatReturn(id)
    \/ \E id \in VatReturnIds : MarkSubmitted(id, "rc1")
    \/ \E p \in VatReturnPeriods :
           LedgerSubmitVatReturn(CalculateVatReturn(transactions, p[1], p[2]))
    \/ \E p \in {<<1, 366>>, <<367, 731>>} :
           PrepareCorporationTaxReturn(p[1], p[2], [company_name |-> "Co", crn |-> "1"])

SpecVatReturn == Init /\ [][NextVatReturn]_vars

\* Income tax computed on a return object and by the ledger from the stored
\* sales invoices and expenses.
NextIncomeTax ==
    \/ \E i \in IncomeInputs, e \in {0, Pounds(100)}, a \in {0, PersonalAllowance} :
           IncomeTaxCalculateTotals(i, e, a)
    \/ \E i \in TaxInvoiceInputs : DatabaseAddInvoice(i)
    \/ \E e \in TaxExpenseInputs : DatabaseAddExpense(e)
    \/ \E y \in TaxYears : LedgerCalculateTaxReturn(y)

SpecIncomeTax == Init /\ [][NextIncomeTax]_vars

\* Stored invoices added, edited and deleted through the invoice manager.
NextInvoiceLife ==
    \/ \E d \in LifeInvoiceInputs : IMAddInvoice(d)
    \/ \E id \in LifeInvoiceIds, d \in LifeUpdateInputs, f \in BOOLEAN :
           IMUpdateInvoice(id, d, f)
    \/ \E id \in LifeInvoiceIds, f \in BOOLEAN : IMDeleteInvoice(id, f)

SpecInvoiceLife == Init /\ [][NextInvoiceLife]_vars

\* Stored invoices marked as paid through the invoice manager and the ledger.
NextInvoicePaid ==
    \/ \E d \in LifeInvoiceInputs : IMAddInvoice(d)
    \/ \E id \in LifeInvoiceIds, d \in {0, Today + 5} : IMMarkAsPaid(id, d)
    \/ \E id \in LifeInvoiceIds, d \in {0, Today + 5} : LedgerMarkInvoiceAsPaid(id, d)

SpecInvoicePaid == Init /\ [][NextInvoicePaid]_vars

\* An Invoice object edited item by item, and stored invoices edited through
\* the invoice manager.
NextInvoiceEdit ==
    \/ \E d \in DraftInputs : InvoiceNew(d)
    \/ \E it \in {ItemPlain, ItemOwnTotal} : InvoiceAddItem(it)
    \/ \E n \in -1..MaxItems : InvoiceRemoveItem(n)
    \/ \E d \in EditInvoiceInputs : IMAddInvoice(d)
    \/ \E id \in LifeInvoiceIds, d \in EditUpdateInputs, f \in BOOLEAN :
           IMUpdateInvoice(id, d, f)

SpecInvoiceEdit == Init /\ [][NextInvoiceEdit]_vars

\* The income tax calculator and its dividend tax.
NextIncomeTaxCalc ==
    \/ \E y \in TaxYearInputs, d \in DividendInputs, o \in OtherIncomeInputs :
           CalculateDividendTax(y, d, o)
    \/ \E y \in TaxYearInputs, d \in IncomeDataInputs : CalculateIncomeTax(y, d)

SpecIncomeTaxCalc == Init /\ [][NextIncomeTaxCalc]_vars

\* The three calculators that take a tax year, over stored sales and expenses.
NextTaxYear ==
    \/ \E i \in TaxInvoiceInputs : DatabaseAddInvoice(i)
    \/ \E e \in TaxExpenseInputs : DatabaseAddExpense(e)
    \/ \E y \in TaxManagerYears : TaxManagerCalculateIncomeTaxReturn(y)
    \/ \E y \in TaxYearInputs, d \in {<<>>, [employment_income |-> Pounds(30000)]} :
           CalculateIncomeTax(y, d)
    \/ \E y \in {0, 2023, 2024} : CalculateCorporationTax(1, 366, y)

SpecTaxYear == Init /\ [][NextTaxYear]_vars

\* The three calculators that take a date range, over stored invoices and
\* ledger transactions; the ranges include inverted ones.
NextPeriods ==
    \/ \E i \in VatInvoiceInputs : DatabaseAddInvoice(i)
    \/ \E t \in VatCalcTxInputs : LedgerAddTransaction(t)
    \/ \E p \in VatPeriods : VatCalculate(p[1], p[2])
    \/ \E p \in VatPeriods : LedgerCalculateVatReturn(p[1], p[2])
    \/ \E p \in {<<1, 366>>, <<366, 1>>}, y \in {0, 2023} :
           CalculateCorporationTax(p[1], p[2], y)

SpecPeriods == Init /\ [][NextPeriods]_vars

\* Journal entries through the transaction manager, with a document number
\* given or generated.
NextJournal ==
    \E e \in JournalInputs, d \in {<<>>, <<"J1">>} : TMCreateJournalEntry(Today, e, d)

SpecJournal == Init /\ [][NextJournal]_vars

\* Every ledger operation that writes transactions, for as long as no balance
\* has moved further than MaxBalance from zero.
BalancesWithin(cap) ==
    \A c \in DOMAIN chart_of_accounts : Abs(chart_of_accounts[c].balance) <= cap

NextLedgerIds ==
    \/ BalancesWithin(MaxBalance) /\ \E t \in IdTxInputs : LedgerAddTransaction(t)
    \/ BalancesWithin(MaxBalance) /\ \E id \in {1, 2}, d \in IdUpdateInputs :
           LedgerUpdateTransaction(id, d)
    \/ BalancesWithin(MaxBalance) /\ \E id \in {1, 2} : LedgerDeleteTransaction(id)
    \/ BalancesWithin(MaxBalance) /\ \E d \in IdInvoiceInputs : LedgerAddInvoice(d)
    \/ BalancesWithin(MaxBalance) /\ \E e \in LedgerExpenseInputs : LedgerAddExpense(e)
    \/ BalancesWithin(MaxBalance) /\ \E id \in LifeInvoiceIds :
           LedgerMarkInvoiceAsPaid(id, 0)

SpecLedgerIds == Init /\ [][NextLedgerIds]_vars

\* Two processes, each with a Database instance on the same file.
NextInstances ==
    \/ \E p \in Instances : InstanceOpen(p)
    \/ \E p \in Instances : \E t \in InstanceTxInputs(p) : InstanceAddTransaction(p, t)
    \/ \E p \in Instances, id \in 1..MaxTx : InstanceDeleteTransaction(p, id)

SpecInstances == Init /\ [][NextInstances]_vars

-----------------------------------------------------------------------------
(* C1: after any sequence of Ledger.add_transaction, update_transaction and   *)
(* delete_transaction calls from an all-zero ledger, every stored balance     *)
(* equals the balance Ledger.refresh() computes from the stored log.  The     *)
(* calls include the ones Ledger.add_invoice makes to post an invoice's legs. *)

C1_BalanceEqualsRefresh ==
    Balances(chart_of_accounts) = Balances(Refresh(chart_of_accounts, transactions))

-----------------------------------------------------------------------------
(* C2: Ledger.add_transaction changes the referenced account's stored balance *)
(* exactly as Account.debit / Account.credit would for that account's type:   *)
(* a debit raises an asset or expense balance and lowers a liability, equity  *)
(* or income balance, a credit does the reverse.                              *)

C2_AddFollowsAccountConvention ==
    [][(last'.op = "Ledger.add_transaction" /\ last'.ok) =>
        LET t == last'.arg
            a == t["account"]
            type == chart_of_accounts[a].type
            before == chart_of_accounts[a].balance
        IN  chart_of_accounts'[a].balance =
                AccountCredit(type, AccountDebit(type, before, Get(t, "debit", 0)),
                              Get(t, "credit", 0))]_vars

-----------------------------------------------------------------------------
(* C7: a transaction with debit > 0 and credit > 0, or with debit and credit  *)
(* both 0, always fails validation and is never persisted: both               *)
(* TransactionManager.add_transaction and Ledger.add_transaction reject it,   *)
(* leaving the transaction store and all balances unchanged.                  *)

BothOrNeither(debit, credit) ==
    (debit > 0 /\ credit > 0) \/ (debit = 0 /\ credit = 0)

C7_InvalidNeverPersisted ==
    [][/\ (/\ last'.op = "Ledger.add_transaction"
           /\ BothOrNeither(Get(last'.arg, "debit", 0), Get(last'.arg, "credit", 0)))
          => (~last'.ok /\ UNCHANGED <<transactions, chart_of_accounts>>)
       /\ (/\ last'.op = "TransactionManager.add_transaction"
           /\ BothOrNeither(last'.tr.debit, last'.tr.credit))
          => (~last'.ok /\ UNCHANGED <<transactions, chart_of_accounts>>)]_vars

-----------------------------------------------------------------------------
(* C8: after any sequence of TransactionManager.add_transaction and           *)
(* update_transaction calls with arbitrary amounts, every stored transaction  *)
(* has non-negative debit and credit, exactly one of them strictly positive.  *)

C8_ExactlyOneSidePositive ==
    \A i \in 1..Len(transactions) :
        LET t == transactions[i]
        IN  /\ t["debit"] >= 0
            /\ t["credit"] >= 0
            /\ (t["debit"] > 0) # (t["credit"] > 0)

-----------------------------------------------------------------------------
(* C3: after Ledger.add_invoice of a sales invoice with net amount N and VAT  *)
(* V > 0 (auto_post on), the store holds exactly three new records carrying   *)
(* the invoice number as document_number: a debit of N+V to 1200, a credit of *)
(* N to 4000 and a credit of V to 2100, each a separate record with its own   *)
(* id.                                                                        *)

IsLeg(t, doc, account, debit, credit) ==
    /\ Get(t, "document_number", <<>>) = doc
    /\ Get(t, "account", "") = account
    /\ Get(t, "debit", 0) = debit
    /\ Get(t, "credit", 0) = credit

C3_SalesInvoicePostsThreeLegs ==
    [][(/\ last'.op = "Ledger.add_invoice"
        /\ last'.ok
        /\ last'.inv["type"] = "sales"
        /\ last'.inv["vat"] > 0
        /\ Get(last'.inv, "auto_post", TRUE))
       => LET n == Len(transactions)
              inv == last'.inv
              doc == inv["invoice_number"]
          IN  /\ Len(transactions') = n + 3
              /\ SubSeq(transactions', 1, n) = transactions
              /\ IsLeg(transactions'[n + 1], doc, "1200", inv["amount"] + inv["vat"], 0)
              /\ IsLeg(transactions'[n + 2], doc, "4000", 0, inv["amount"])
              /\ IsLeg(transactions'[n + 3], doc, "2100", 0, inv["vat"])
              /\ Cardinality({transactions'[i]["id"] : i \in (n + 1)..(n + 3)}) = 3]_vars

-----------------------------------------------------------------------------
(* C4: for any set of sales and purchase invoices posted through              *)
(* Ledger.add_invoice with dates inside the period, calculate_vat_return      *)
(* returns Box1 = total VAT of the sales invoices, Box4 = total VAT of the    *)
(* purchase invoices, Box5 = Box1 - Box4, Box6 = total net of the sales       *)
(* invoices and Box7 = total net of the purchase invoices.                    *)

PostedInvoices == SelectSeq(invoices, LAMBDA inv : Get(inv, "auto_post", TRUE))

InvoiceSum(type, field) ==
    SumSeq([n \in 1..Len(PostedInvoices) |->
               IF PostedInvoices[n]["type"] = type THEN PostedInvoices[n][field] ELSE 0])

C4_VatBoxesFromInvoices ==
    (/\ last.op = "Ledger.calculate_vat_return"
     /\ \A i \in 1..Len(PostedInvoices) :
            /\ last.start <= PostedInvoices[i]["date"]
            /\ PostedInvoices[i]["date"] <= last.end)
    => /\ last.result.vat_due_sales = InvoiceSum("sales", "vat")
       /\ last.result.vat_reclaimed = InvoiceSum("purchase", "vat")
       /\ last.result.net_vat_due = InvoiceSum("sales", "vat") - InvoiceSum("purchase", "vat")
       /\ last.result.total_sales_ex_vat = InvoiceSum("sales", "amount")
       /\ last.result.total_purchases_ex_vat = InvoiceSum("purchase", "amount")

-----------------------------------------------------------------------------
(* C9: for every invoice posted by InvoiceManager.add_invoice (sales or       *)
(* purchase, any items, auto_post on), the legs stored under the invoice's    *)
(* document_number are balanced: their debits sum to their credits.           *)

LegsOf(doc) == SelectSeq(transactions, LAMBDA t : Get(t, "document_number", <<>>) = doc)

C9_PostedLegsBalanced ==
    \A i \in 1..Len(invoices) :
        Get(invoices[i], "auto_post", TRUE) =>
            LET legs == LegsOf(invoices[i]["invoice_number"])
            IN  SumSeq([n \in 1..Len(legs) |-> Get(legs[n], "debit", 0)])
                = SumSeq([n \in 1..Len(legs) |-> Get(legs[n], "credit", 0)])

-----------------------------------------------------------------------------
(* C10: for every Invoice built from any list of items (including items given *)
(* as dicts with their own vat_amount or total), total_amount equals          *)
(* net_amount + vat_amount, each item's net, VAT and total being rounded      *)
(* half-up to 2 decimals before summation and the sums not re-rounded.        *)

C10_TotalIsNetPlusVat ==
    last.op = "InvoiceManager.add_invoice" =>
        last.invoice.total_amount = last.invoice.net_amount + last.invoice.vat_amount

-----------------------------------------------------------------------------
(* C5: the corporation tax has no jump at either band edge: the               *)
(* marginal-relief branch evaluated at profit = lower_limit equals            *)
(* lower_limit x small_profits_rate and at profit = upper_limit equals        *)
(* upper_limit x main_rate, so the tax one pound above lower_limit (one pound *)
(* below upper_limit) differs from the tax at the limit by less than a pound. *)

C5_NoJumpAtBandEdges ==
    (last.op = "calculate_corporation_tax" /\ last.ok) =>
        LET rates == last.result.tax_rates
            profit == last.result.taxable_profit
            tax_due == last.result.tax_due
        IN  /\ profit = rates.lower_limit * 100 =>
                   RoundHalfEven(MarginalReliefTaxDue(rates.lower_limit, rates)) = tax_due
            /\ profit = rates.upper_limit * 100 =>
                   RoundHalfEven(MarginalReliefTaxDue(rates.upper_limit, rates)) = tax_due
            /\ profit = (rates.lower_limit + 1) * 100 =>
                   Abs(tax_due - rates.lower_limit * rates.small_profits_rate) < 100
            /\ profit = (rates.upper_limit - 1) * 100 =>
                   Abs(rates.upper_limit * rates.main_rate - tax_due) < 100

-----------------------------------------------------------------------------
(* C6: calculate_corporation_tax reports taxable profit = max(0, total income *)
(* - total expenses) and tax_due = profit x 0.19 up to 50000, profit x 0.25   *)
(* from 250000, and profit x 0.25 - 0.06 x (2 x (250000 - profit) / 200000) x *)
(* profit in between, i.e. profit x (1000000 + 6 x profit) / 100000 pence     *)
(* rounded to the penny; effective_rate is 0 when profit is 0; a profit of    *)
(* 50000 gives 9500.00 and a profit of 250000 gives 62500.00.                 *)

C6_TaxDueFollowsBands ==
    (last.op = "calculate_corporation_tax" /\ last.ok) =>
        LET r == last.result
            profit == r.taxable_profit \div 100
            between == MulDivMod(profit, 1000000 + 6 * profit, 100000)
        IN  /\ r.taxable_profit = Max(0, r.total_income - r.total_expenses)
            /\ profit <= 50000 => r.tax_due = profit * 19
            /\ profit >= 250000 => r.tax_due = profit * 25
            /\ (profit > 50000 /\ profit < 250000) =>
                   /\ 2 * between.r < 100000 => r.tax_due = between.q
                   /\ 2 * between.r > 100000 => r.tax_due = between.q + 1
                   /\ r.tax_due \in {between.q, between.q + 1}
            /\ profit = 0 => r.effective_rate = 0
            /\ profit = 50000 => r.tax_due = 950000
            /\ profit = 250000 => r.tax_due = 6250000

C6_Witness ==
    /\ last.op = "calculate_corporation_tax"
    /\ last.ok
    /\ last.result.taxable_profit = 5000100
    /\ last.result.tax_due = 650016
    /\ last.result.total_expenses = 0

-----------------------------------------------------------------------------
(* C11: an Invoice's net_amount, vat_amount and total_amount always equal the *)
(* sums of the corresponding values of its current items: after construction, *)
(* after add_item and remove_item (a rejected index changes nothing) and      *)
(* after the edits of InvoiceManager.update_invoice.                          *)

TotalsAreItemSums(inv) ==
    /\ inv.net_amount = SumSeq([n \in 1..Len(inv.items) |-> inv.items[n].net_amount])
    /\ inv.vat_amount = SumSeq([n \in 1..Len(inv.items) |-> inv.items[n].vat_amount])
    /\ inv.total_amount = SumSeq([n \in 1..Len(inv.items) |-> inv.items[n].total])

C11_TotalsEqualItemSums ==
    /\ draft # <<>> => TotalsAreItemSums(draft)
    /\ (last.op = "InvoiceManager.update_invoice" /\ last.ok) =>
           TotalsAreItemSums(last.invoice)

-----------------------------------------------------------------------------
(* C12: after InvoiceManager.update_invoice on a posted invoice (with         *)
(* update_transactions and auto_post on), the transactions stored under the   *)
(* invoice's document_number are exactly the recipe legs of the new invoice   *)
(* state (sales: 1200 debit total, 4000 credit net, 2100 credit VAT if        *)
(* positive; purchase: 5000 debit net, 2200 debit VAT if positive, 2000       *)
(* credit total), no leg of the old state remaining and none duplicated.      *)

\* A leg without its id.
Leg(account, debit, credit, date, doc, type) ==
    [account |-> account, debit |-> debit, credit |-> credit, date |-> date,
     document_number |-> doc, transaction_type |-> type]

LegContent(t) ==
    Leg(Get(t, "account", ""), Get(t, "debit", 0), Get(t, "credit", 0), Get(t, "date", 0),
        Get(t, "document_number", <<>>), Get(t, "transaction_type", ""))

StoredLegs(doc) == [n \in 1..Len(LegsOf(doc)) |-> LegContent(LegsOf(doc)[n])]

RecipeLegs(inv) ==
    LET vat_leg(account, debit, credit) ==
            IF inv.vat_amount > 0
            THEN <<Leg(account, debit, credit, inv.date, inv.invoice_number, "invoice")>>
            ELSE <<>>
    IN  IF inv.type = "sales"
        THEN <<Leg("1200", inv.total_amount, 0, inv.date, inv.invoice_number, "invoice"),
               Leg("4000", 0, inv.net_amount, inv.date, inv.invoice_number, "invoice")>>
             \o vat_leg("2100", 0, inv.vat_amount)
        ELSE <<Leg("5000", inv.net_amount, 0, inv.date, inv.invoice_number, "invoice")>>
             \o vat_leg("2200", inv.vat_amount, 0)
             \o <<Leg("2000", 0, inv.total_amount, inv.date, inv.invoice_number, "invoice")>>

\* The invoice as get_invoice_by_id returns it after the call.
StoredInvoice(id) == InvoiceFromDict(invoices[IMFindInvoice(invoices, id)], 0)

C12_UpdateRepostsRecipeLegs ==
    (/\ last.op = "InvoiceManager.update_invoice"
     /\ last.ok
     /\ last.flag
     /\ last.invoice.auto_post) =>
        StoredLegs(StoredInvoice(last.id).invoice_number) = RecipeLegs(StoredInvoice(last.id))

-----------------------------------------------------------------------------
(* C13: InvoiceManager.delete_invoice with delete_transactions on removes the *)
(* invoice and every transaction whose document_number equals its             *)
(* invoice_number and leaves every other transaction unchanged; with          *)
(* delete_transactions off it removes the invoice and no transaction; for an  *)
(* unknown invoice id it fails and changes nothing.                           *)

DeleteInvoiceFrame ==
    LET i == FirstIndex({j \in 1..Len(invoices) : Get(invoices[j], "id", 0) = last'.id})
    IN  last'.op = "InvoiceManager.delete_invoice" =>
            /\ chart_of_accounts' = chart_of_accounts
            /\ IF i = 0
               THEN /\ ~last'.ok
                    /\ invoices' = invoices
                    /\ transactions' = transactions
               ELSE /\ last'.ok
                    /\ invoices' = [n \in 1..(Len(invoices) - 1) |->
                                       IF n < i THEN invoices[n] ELSE invoices[n + 1]]
                    /\ transactions' =
                           IF last'.flag
                           THEN SelectSeq(transactions, LAMBDA t :
                                    Get(t, "document_number", <<>>)
                                        # invoices[i]["invoice_number"])
                           ELSE transactions

-----------------------------------------------------------------------------
(* C14: after one or more mark-as-paid calls on an invoice (through           *)
(* Ledger.mark_invoice_as_paid or InvoiceManager.mark_as_paid), storage holds *)
(* exactly one payment leg-pair under PMT-{invoice_number}, as two separate   *)
(* records: for a sales invoice a debit to 1100 and a credit to 1200 of the   *)
(* invoice total with type receipt; for a purchase invoice a debit to 2000    *)
(* and a credit to 1100 of the invoice total with type payment.               *)

PaymentLeg(account, debit, credit, type) ==
    [account |-> account, debit |-> debit, credit |-> credit, transaction_type |-> type]

StoredPaymentLegs(number) ==
    [n \in 1..Len(LegsOf(<<"PMT">> \o number)) |->
        PaymentLeg(Get(LegsOf(<<"PMT">> \o number)[n], "account", ""),
                   Get(LegsOf(<<"PMT">> \o number)[n], "debit", 0),
                   Get(LegsOf(<<"PMT">> \o number)[n], "credit", 0),
                   Get(LegsOf(<<"PMT">> \o number)[n], "transaction_type", ""))]

PaymentLegPair(inv) ==
    IF inv.type = "sales"
    THEN <<PaymentLeg("1100", inv.total_amount, 0, "receipt"),
           PaymentLeg("1200", 0, inv.total_amount, "receipt")>>
    ELSE <<PaymentLeg("2000", inv.total_amount, 0, "payment"),
           PaymentLeg("1100", 0, inv.total_amount, "payment")>>

C14_OnePaymentLegPair ==
    \A i \in 1..Len(invoices) :
        Get(invoices[i], "payment_status", "unpaid") = "paid" =>
            StoredPaymentLegs(invoices[i]["invoice_number"])
                = PaymentLegPair(InvoiceFromDict(invoices[i], 0))

-----------------------------------------------------------------------------
(* C15: for any stored transactions and any period, Ledger.calculate_vat_return *)
(* counts exactly the transactions dated within [start_date, end_date], bounds  *)
(* inclusive, and returns Box1 = sum of credits to account 2100, Box2 = 0,      *)
(* Box3 = Box1 + Box2, Box4 = sum of debits to account 2200, Box5 = Box3 - Box4 *)
(* (negative when Box4 exceeds Box3), Box6 = sum of credits to accounts whose   *)
(* code starts with 4, Box7 = sum of debits to accounts whose code starts with  *)
(* 5, Box8 = Box9 = 0.                                                          *)

InPeriod(start, end) ==
    SelectSeq(transactions, LAMBDA t : start <= t["date"] /\ t["date"] <= end)

CreditsTo(txs, codes) ==
    SumSeq([n \in 1..Len(txs) |-> IF txs[n]["account"] \in codes THEN txs[n]["credit"] ELSE 0])

DebitsTo(txs, codes) ==
    SumSeq([n \in 1..Len(txs) |-> IF txs[n]["account"] \in codes THEN txs[n]["debit"] ELSE 0])

C15_LedgerVatBoxes ==
    last.op = "Ledger.calculate_vat_return" =>
        LET txs == InPeriod(last.start, last.end)
            box1 == CreditsTo(txs, {"2100"})
            box4 == DebitsTo(txs, {"2200"})
        IN  /\ last.result.vat_due_sales = box1
            /\ last.result.vat_due_acquisitions = 0
            /\ last.result.total_vat_due = box1
            /\ last.result.vat_reclaimed = box4
            /\ last.result.net_vat_due = box1 - box4
            /\ last.result.total_sales_ex_vat = CreditsTo(txs, IncomeCodes)
            /\ last.result.total_purchases_ex_vat = DebitsTo(txs, ExpenseCodes)
            /\ last.result.total_supplies_ex_vat = 0
            /\ last.result.total_acquisitions_ex_vat = 0

-----------------------------------------------------------------------------
(* C16: VATReturnCalculator.calculate_vat_return reports netVatDue (Box 5) as *)
(* totalVatDue minus vatReclaimedCurrPeriod, so the reported value is         *)
(* negative whenever reclaimed VAT exceeds VAT due (a refund).                *)

C16_NetVatDueIsSigned ==
    last.op = "VATReturnCalculator.calculate_vat_return" =>
        last.result.netVatDue
            = last.result.totalVatDue - last.result.vatReclaimedCurrPeriod

-----------------------------------------------------------------------------
(* C17: Ledger.calculate_vat_return and                                       *)
(* VATReturnCalculator.calculate_vat_return change no stored account,         *)
(* transaction, invoice, expense or VAT return, and two calls for the same    *)
(* period with no mutation in between return identical reports.               *)

VatCalculatorOps ==
    {"Ledger.calculate_vat_return", "VATReturnCalculator.calculate_vat_return"}

CalculationIsPure ==
    last'.op \in VatCalculatorOps =>
        /\ chart_of_accounts' = chart_of_accounts
        /\ transactions' = transactions
        /\ invoices' = invoices
        /\ expenses' = expenses
        /\ vat_returns' = vat_returns
        /\ \A n \in 1..Len(reports) : reports'[n] = reports[n]
        /\ (/\ last.op = last'.op
            /\ last.start = last'.start
            /\ last.end = last'.end) => last'.result = last.result

C17_CalculatorsArePure == [][CalculationIsPure]_vars

\* The calculator ran twice in a row over stored invoices, expenses and
\* transactions and both reports are in memory.
C17_Witness ==
    /\ last.op = "VATReturnCalculator.calculate_vat_return"
    /\ Len(reports) = 2
    /\ reports[1] = reports[2]
    /\ last.result.vatDueSales > 0
    /\ last.result.vatReclaimedCurrPeriod > 0
    /\ transactions # <<>>

-----------------------------------------------------------------------------
(* C18: once a stored VAT return has status "submitted", no call of           *)
(* finalize_vat_return or mark_submitted changes it: both fail with an error  *)
(* and leave its status, finalised flag, submission date and data unchanged,  *)
(* so a submitted return never goes back to draft and is never submitted      *)
(* twice.                                                                     *)

SubmittedIsFrozen ==
    last'.op \in {"finalize_vat_return", "mark_submitted"} =>
        /\ \A i \in 1..Len(vat_returns) :
               Get(vat_returns[i], "status", "") = "submitted" =>
                   /\ Len(vat_returns') >= i
                   /\ vat_returns'[i] = vat_returns[i]
                   /\ Has(vat_returns[i], "data") =>
                          reports'[vat_returns[i]["data"]] = reports[vat_returns[i]["data"]]
        /\ (/\ last'.index # 0
            /\ Get(vat_returns[last'.index], "status", "") = "submitted") => ~last'.ok

C18_SubmittedReturnIsFrozen == [][SubmittedIsFrozen]_vars

\* finalize_vat_return was refused on a return that had been submitted without
\* ever being finalised.
C18_Witness ==
    /\ last.op = "finalize_vat_return"
    /\ ~last.ok
    /\ last.index # 0
    /\ vat_returns[last.index]["status"] = "submitted"
    /\ Has(vat_returns[last.index], "data")
    /\ ~reports[vat_returns[last.index]["data"]]["finalised"]

-----------------------------------------------------------------------------
(* C19: the calculators never set the confirmation flags themselves:          *)
(* VATReturnCalculator.calculate_vat_return always returns finalised = false  *)
(* and prepare_corporation_tax_return always returns declaration = false, and *)
(* a stored VAT return's finalised flag becomes true only through an explicit *)
(* finalize_vat_return call on that return (not through                       *)
(* save_draft_vat_return or mark_submitted).                                  *)

Finalised(rets, reps, i) ==
    /\ i <= Len(rets)
    /\ Has(rets[i], "data")
    /\ Get(reps[rets[i]["data"]], "finalised", FALSE)

FlagsSetOnlyByFinalize ==
    /\ last'.op = "VATReturnCalculator.calculate_vat_return" =>
           ~last'.result.finalised
    /\ (last'.op = "prepare_corporation_tax_return" /\ last'.ok) =>
           ~last'.result.declaration
    /\ \A i \in 1..Len(vat_returns') :
           (Finalised(vat_returns', reports', i) /\ ~Finalised(vat_returns, reports, i)) =>
               /\ last'.op = "finalize_vat_return"
               /\ last'.ok
               /\ last'.index = i

C19_FlagsSetOnlyByFinalize == [][FlagsSetOnlyByFinalize]_vars

-----------------------------------------------------------------------------
(* C20: for a fixed tax allowance, the tax_due computed by                    *)
(* IncomeTaxReturn.calculate_totals (and by Ledger.calculate_tax_return) is   *)
(* non-decreasing in taxable_income: raising net profit never lowers tax_due, *)
(* including across the 37,700 and 150,000 band limits and after rounding to  *)
(* 2 decimals.                                                                *)

TaxOf(op, net_profit, tax_allowance) ==
    IF op = "IncomeTaxReturn.calculate_totals"
    THEN IncomeTaxDue(Max(0, net_profit - tax_allowance))
    ELSE LedgerIncomeTaxDue(Max(0, net_profit - tax_allowance))

C20_TaxDueNonDecreasing ==
    (last.op \in {"IncomeTaxReturn.calculate_totals", "Ledger.calculate_tax_return"}
        /\ last.ok) =>
        \A net_profit \in IncomeInputs :
            /\ net_profit <= last.net_profit =>
                   TaxOf(last.op, net_profit, last.tax_allowance) <= last.tax_due
            /\ net_profit >= last.net_profit =>
                   TaxOf(last.op, net_profit, last.tax_allowance) >= last.tax_due

\* The ledger computed the tax of a profit three pence above the basic rate
\* limit, where rounding has just moved the tax up by a penny.
C20_Witness ==
    /\ last.op = "Ledger.calculate_tax_return"
    /\ last.ok
    /\ last.taxable_income = BasicRateLimit + 20
    /\ last.tax_due = Pounds(7540) + 10
    /\ last.total_expenses > 0

-----------------------------------------------------------------------------
(* C21: in _calculate_dividend_tax non-dividend income fills the bands first: *)
(* the dividend taxed at the basic dividend rate never exceeds the basic-band *)
(* headroom left by other taxable income, the dividend taxed at the basic or  *)
(* higher rate never exceeds the headroom left below the higher-rate limit,   *)
(* and when other taxable income reaches the higher-rate limit the whole      *)
(* taxable dividend is taxed at the additional rate.                          *)

C21_OtherIncomeFillsBandsFirst ==
    (last.op = "IncomeTaxCalculator._calculate_dividend_tax" /\ last.ok /\ last.taxed) =>
        LET b == last.bands
            other == last.other_taxable_income
        IN  /\ b.div_basic_band <= Max(0, b.basic_limit - other)
            /\ b.div_basic_band + b.div_higher_band <= Max(0, b.higher_limit - other)
            /\ other >= b.higher_limit => b.div_additional_band = b.taxable_dividend

-----------------------------------------------------------------------------
(* C22: calculate_income_tax taxes dividends separately, only at dividend     *)
(* rates: for total income below 100,000, two calls whose inputs differ only  *)
(* in the dividends return the same income_tax and the same band taxes.       *)

SameButDividends(a, b) ==
    /\ DOMAIN a \cup {"dividends"} = DOMAIN b \cup {"dividends"}
    /\ \A k \in (DOMAIN a \cup DOMAIN b) \ {"dividends"} : Get(a, k, 0) = Get(b, k, 0)

DividendsLeaveIncomeTax ==
    (/\ last.op = "IncomeTaxCalculator.calculate_income_tax"
     /\ last'.op = "IncomeTaxCalculator.calculate_income_tax"
     /\ last.ok /\ last'.ok
     /\ last.tax_year = last'.tax_year
     /\ SameButDividends(last.income_data, last'.income_data)
     /\ last.result.total_income < Pounds(100000)
     /\ last'.result.total_income < Pounds(100000)) =>
        /\ last'.result.income_tax = last.result.income_tax
        /\ last'.result.tax_bands = last.result.tax_bands

C22_DividendsTaxedSeparately == [][DividendsLeaveIncomeTax]_vars

-----------------------------------------------------------------------------
(* C23: no calculator returns a report for an unknown or malformed tax year:  *)
(* IncomeTaxCalculator.calculate_income_tax, CorporateTaxCalculator.          *)
(* calculate_corporation_tax and TaxManager.calculate_income_tax_return each  *)
(* fail with an error instead of returning a report.                          *)

\* The call recorded in last names a tax year the calculator has no table entry
\* for, or one it cannot read a year from.
UnknownTaxYear ==
    \/ /\ last.op = "IncomeTaxCalculator.calculate_income_tax"
       /\ last.tax_year \notin DOMAIN tax_bands
    \/ /\ last.op = "calculate_corporation_tax"
       /\ last.tax_year # 0
       /\ last.tax_year \notin DOMAIN TaxRates
    \/ /\ last.op = "TaxManager.calculate_income_tax_return"
       /\ last.tax_year # <<>>
       /\ last.tax_year[1] \notin DOMAIN PyInt

C23_UnknownTaxYearFails == UnknownTaxYear => ~last.ok

-----------------------------------------------------------------------------
(* C24: a calculation requested for an inverted date range (start later than  *)
(* end) fails with an error and produces no report, for                       *)
(* Ledger.calculate_vat_return, VATReturnCalculator.calculate_vat_return and  *)
(* CorporateTaxCalculator.calculate_corporation_tax.                          *)

C24_InvertedRangeFails ==
    (/\ last.op \in {"Ledger.calculate_vat_return",
                     "VATReturnCalculator.calculate_vat_return",
                     "calculate_corporation_tax"}
     /\ last.start > last.end) => ~last.ok

-----------------------------------------------------------------------------
(* C25: what create_journal_entry persists is balanced: when the entries'     *)
(* debit total differs from their credit total it returns failure and         *)
(* persists nothing, and whenever it returns success the legs stored under    *)
(* the journal's document_number have equal debit and credit sums.            *)

JournalLegs(txs, doc) ==
    SelectSeq(txs, LAMBDA t : Get(t, "document_number", <<>>) = doc)

JournalIsBalanced ==
    last'.op = "TransactionManager.create_journal_entry" =>
        LET entries == last'.entries
            legs == JournalLegs(transactions', last'.document_number)
        IN  /\ SumSeq([n \in 1..Len(entries) |-> Get(entries[n], "debit", 0)])
                   # SumSeq([n \in 1..Len(entries) |-> Get(entries[n], "credit", 0)])
               => ~last'.ok /\ transactions' = transactions
            /\ last'.ok =>
                   SumSeq([n \in 1..Len(legs) |-> legs[n]["debit"]])
                       = SumSeq([n \in 1..Len(legs) |-> legs[n]["credit"]])

C25_JournalIsBalanced == [][JournalIsBalanced]_vars

-----------------------------------------------------------------------------
(* C26: after any sequence of Ledger operations (add_transaction,             *)
(* update_transaction, delete_transaction, add_invoice, add_expense,          *)
(* mark_invoice_as_paid) all stored transactions have pairwise distinct ids,  *)
(* and update_transaction never changes the id of the transaction it updates. *)

TransactionIdsDistinct ==
    \A i, j \in 1..Len(transactions) :
        i # j => Get(transactions[i], "id", 0) # Get(transactions[j], "id", 0)

UpdateKeepsId ==
    (last'.op = "Ledger.update_transaction" /\ last'.ok) =>
        /\ Len(transactions') = Len(transactions)
        /\ \A i \in 1..Len(transactions) :
               Get(transactions'[i], "id", 0) = Get(transactions[i], "id", 0)

C26_IdsUniqueAndStable == []TransactionIdsDistinct /\ [][UpdateKeepsId]_vars

-----------------------------------------------------------------------------
(* C29: Ledger.update_transaction called with data that contains only         *)
(* non-amount fields (for example just a new status) leaves the stored        *)
(* transaction's account, debit and credit unchanged and leaves every account *)
(* balance unchanged.                                                         *)

AmountFields == {"account", "debit", "credit"}

StatusUpdateKeepsAmounts ==
    (/\ last'.op = "Ledger.update_transaction"
     /\ last'.ok
     /\ DOMAIN last'.arg \cap AmountFields = {}) =>
        LET i == DbFindTransaction(transactions, last'.id)
        IN  /\ \A k \in AmountFields :
                   /\ Has(transactions'[i], k) = Has(transactions[i], k)
                   /\ Get(transactions'[i], k, 0) = Get(transactions[i], k, 0)
            /\ Balances(chart_of_accounts') = Balances(chart_of_accounts)

C29_StatusUpdateKeepsAmounts == [][StatusUpdateKeepsAmounts]_vars

-----------------------------------------------------------------------------
(* C28: each call of VATReturnCalculator.save_draft_vat_return returns a      *)
(* database-assigned id that is distinct from the ids of all other stored VAT *)
(* returns, so that finalize_vat_return(id) and mark_submitted(id) change     *)
(* exactly the return saved by that call and no other stored return.          *)

\* The id of the return stored at position i, 0 for None or no id.
VatReturnId(rets, i) == Get(rets[i], "id", 0)

DraftIdIsDistinct ==
    /\ last'.op = "save_draft_vat_return" =>
           LET n == Len(vat_returns')
           IN  /\ VatReturnId(vat_returns', n) # 0
               /\ \A j \in 1..(n - 1) :
                      VatReturnId(vat_returns', j) # VatReturnId(vat_returns', n)
    /\ (last'.op \in {"finalize_vat_return", "mark_submitted"} /\ last'.ok) =>
           /\ \A j \in 1..Len(vat_returns) :
                  vat_returns'[j] # vat_returns[j] => j = last'.index
           /\ \A j \in 1..Len(vat_returns) :
                  VatReturnId(vat_returns, j) = last'.id => j = last'.index

C28_DraftIdIsDistinct == [][DraftIdIsDistinct]_vars

-----------------------------------------------------------------------------
(* C30: invoice operations performed through InvoiceManager keep running      *)
(* balances in step with the transaction log: after InvoiceManager.add_invoice *)
(* posts an invoice's legs, and after mark_as_paid or delete_invoice, the     *)
(* stored balance of every account equals the balance Ledger.refresh() would  *)
(* compute from the stored transactions.                                      *)

InvoiceManagerOps ==
    {"InvoiceManager.add_invoice", "InvoiceManager.mark_as_paid",
     "InvoiceManager.delete_invoice"}

InvoiceManagerKeepsBalances ==
    (last'.op \in InvoiceManagerOps /\ last'.ok) =>
        Balances(chart_of_accounts') =
            Balances(Refresh(chart_of_accounts', transactions'))

C30_InvoiceManagerKeepsBalances == [][InvoiceManagerKeepsBalances]_vars

-----------------------------------------------------------------------------
(* C27: two Database instances opened on the same file do not detect each     *)
(* other's writes: when both perform a mutating call in any interleaving, the *)
(* later save overwrites the file with that writer's in-memory state, the     *)
(* other writer's transaction is missing from the file, and no error is       *)
(* raised to either writer.                                                   *)

InSeq(r, s) == \E i \in 1..Len(s) : s[i] = r

\* Records that q added and still holds, and that p did not read when it
\* constructed its instance.
UnseenBy(p, q, dbs) ==
    {dbs.data[q][i] : i \in {j \in 1..Len(dbs.data[q]) :
        /\ Get(dbs.data[q][j], "description", "") = q
        /\ ~InSeq(dbs.data[q][j], dbs.loaded[p])}}

LaterSaveOverwrites ==
    (Has(last', "instance") /\ last'.saved) =>
        LET p == last'.instance
        IN  /\ last'.ok
            /\ databases'.file = databases'.data[p]
            /\ \A q \in Instances \ {p} :
                   /\ databases'.data[q] = databases.data[q]
                   /\ \A r \in UnseenBy(p, q, databases') : ~InSeq(r, databases'.file)

C27_LaterSaveOverwrites == [][LaterSaveOverwrites]_vars

\* Both processes have added a transaction, and the one that b added and still
\* holds is no longer in the file after a's save.
C27_Witness ==
    /\ Has(last, "instance")
    /\ last.op = "Database.add_transaction"
    /\ last.instance = "a"
    /\ UnseenBy("a", "b", databases) # {}
    /\ \A r \in UnseenBy("a", "b", databases) : ~InSeq(r, databases.file)
    /\ databases.file = databases.data["a"]

====
